---- MODULE Spec2Model ----
(***************************************************************************)
(* Model of the lab-page content pipeline: the marker-delimited splicers   *)
(* that rewrite index.html, the keyword classifier of publications, the    *)
(* author formatter, the grouping by year, the news ids and the news       *)
(* section, the data validator, the update orchestrator and the processing *)
(* runs with their backup step.                                            *)
(* Python strings are TLA+ strings; offsets are 0-based as in Python.      *)
(***************************************************************************)
EXTENDS Integers, Sequences, FiniteSets, TLC

VARIABLES
    index_html,      \* content of the file index.html
    backups,         \* contents written to backups/, oldest first
    op,              \* the operation called last ("none" before any call)
    arg,             \* the fragment passed to that call
    ret,             \* what that call returned
    pre_html,        \* content of index.html when that call started
    calls,           \* number of calls made so far
    pub,             \* the publication record handed to categorize_publication
    cat_result,      \* what categorize_publication returned for pub
    authors_str,     \* the author string handed to format_authors
    authors_out,     \* what format_authors returned for it
    publications,    \* the publication list handed to the year grouping
    year_groups,     \* the year sections it produced, in order
    grouped_by,      \* which of the two implementations produced them
    news_data,       \* the stored news collection (data/news.json), front first
    next_id,         \* what get_next_news_id returned for it
    news_section,    \* the two blocks generate_news_section_html rendered from it
    added,           \* how many add_news runs there have been
    last_add,        \* what the last add_news run did
    v_news,          \* data/news.json as the validator finds it
    v_pubs,          \* publications.json as the validator finds it
    v_config,        \* data/scholar_config.json as the validator finds it
    v_html,          \* index.html as the validator finds it
    errors,          \* DataValidator.errors
    warnings,        \* DataValidator.warnings
    valid,           \* what validate_system returned
    runs,            \* how many runs of update_publications there have been
    choice,          \* the option typed in the last run
    fetch_outcome,   \* how fetch_scholar_publications.py ended in the last run
    process_outcome, \* how auto_process_publications.py ended in the last run
    success,         \* what the last run reported
    stamped,         \* whether the last run called update_config_timestamp
    config_updates,  \* how often update_config_timestamp has been called
    html_file,       \* index.html as the processing runs find and leave it
    backup_files,    \* the backup copies written under backups/, oldest first
    p_kind,          \* which entry point is running
    p_pc,            \* the step the run has reached
    p_pre,           \* index.html as it was when the run started
    backup_state,    \* what became of the backup step of the run
    p_writes,        \* how often the run has written index.html
    success_count,   \* metrics sections the run has updated
    p_result,         \* what the run returned
    new_pubs,        \* the fetched records handed to merge_publications
    existing_pubs,   \* the records loaded from publications.json
    merged,           \* what merge_publications returned
    html_pub,        \* the record handed to generate_publication_html
    run,             \* how many runs of the program have started
    set_order,       \* the order in which the current run iterates the set of topics of the record
    fragments,        \* the fragments generated so far, each with its run
    m_publications,  \* the publications loaded by PublicationMetricsCalculator
    metrics,          \* the result of calculate_metrics, once computed
    session_first,   \* index.html at the start of a session of update runs
    session_html,    \* index.html now, in that session
    session_log      \* the calls of the session, each with its argument, its return value and index.html after it

spliceVars == <<index_html, backups, op, arg, ret, pre_html, calls>>
classifyVars == <<pub, cat_result>>
authorVars == <<authors_str, authors_out>>
groupVars == <<publications, year_groups, grouped_by>>
newsVars == <<news_data, next_id, news_section, added, last_add>>
validateVars == <<v_news, v_pubs, v_config, v_html, errors, warnings, valid>>
orchVars == <<runs, choice, fetch_outcome, process_outcome, success, stamped, config_updates>>
procVars == <<html_file, backup_files, p_kind, p_pc, p_pre, backup_state, p_writes, success_count, p_result>>
mergeVars == <<new_pubs, existing_pubs, merged>>
renderVars == <<html_pub, run, set_order, fragments>>
metricsVars == <<m_publications, metrics>>
sessionVars == <<session_first, session_html, session_log>>

vars == <<spliceVars, classifyVars, authorVars, groupVars, newsVars, validateVars, orchVars, procVars, mergeVars, renderVars, metricsVars, sessionVars>>

\* A result not computed yet, and a computed one.
NoPub == [none |-> TRUE]
NoResult == [none |-> TRUE]
Some(x) == [value |-> x]

(***************************************************************************)
(* Each specification below runs one component; the state of the others    *)
(* stays as it is before they run.                                         *)
(***************************************************************************)
SpliceIdle ==
    /\ index_html = ""
    /\ backups = << >>
    /\ op = "none"
    /\ arg = ""
    /\ ret = FALSE
    /\ pre_html = ""
    /\ calls = 0

ClassifyIdle == pub = NoPub /\ cat_result = NoResult

AuthorIdle == authors_str = "" /\ authors_out = NoResult

GroupIdle == publications = << >> /\ year_groups = NoResult /\ grouped_by = "none"

NewsIdle == news_data = << >> /\ next_id = NoResult /\ news_section = NoResult /\ added = 0 /\ last_add = "none"

ValidateIdle == v_news = NoResult /\ v_pubs = NoResult /\ v_config = NoResult /\ v_html = NoResult /\ errors = << >> /\ warnings = << >> /\ valid = NoResult

OrchIdle == runs = 0 /\ choice = "" /\ fetch_outcome = "not run" /\ process_outcome = "not run" /\ success = TRUE /\ stamped = FALSE /\ config_updates = 0

ProcIdle == html_file = "" /\ backup_files = << >> /\ p_kind = "none" /\ p_pc = "idle" /\ p_pre = "" /\ backup_state = "not tried" /\ p_writes = 0 /\ success_count = 0 /\ p_result = NoResult

MergeIdle == new_pubs = << >> /\ existing_pubs = << >> /\ merged = NoResult

RenderIdle == html_pub = NoPub /\ run = 0 /\ set_order = << >> /\ fragments = << >>

MetricsIdle == m_publications = << >> /\ metrics = NoResult

SessionIdle == session_first = "" /\ session_html = "" /\ session_log = << >>

\* The components other than g have not run.
Idle(g) ==
    /\ IF g = "splice" THEN TRUE ELSE SpliceIdle
    /\ IF g = "classify" THEN TRUE ELSE ClassifyIdle
    /\ IF g = "authors" THEN TRUE ELSE AuthorIdle
    /\ IF g = "group" THEN TRUE ELSE GroupIdle
    /\ IF g = "news" THEN TRUE ELSE NewsIdle
    /\ IF g = "validate" THEN TRUE ELSE ValidateIdle
    /\ IF g = "orch" THEN TRUE ELSE OrchIdle
    /\ IF g = "proc" THEN TRUE ELSE ProcIdle
    /\ IF g = "merge" THEN TRUE ELSE MergeIdle
    /\ IF g = "render" THEN TRUE ELSE RenderIdle
    /\ IF g = "metrics" THEN TRUE ELSE MetricsIdle
    /\ IF g = "session" THEN TRUE ELSE SessionIdle

\* A step of component g leaves the others alone.
Frame(g) ==
    /\ IF g = "splice" THEN TRUE ELSE UNCHANGED spliceVars
    /\ IF g = "classify" THEN TRUE ELSE UNCHANGED classifyVars
    /\ IF g = "authors" THEN TRUE ELSE UNCHANGED authorVars
    /\ IF g = "group" THEN TRUE ELSE UNCHANGED groupVars
    /\ IF g = "news" THEN TRUE ELSE UNCHANGED newsVars
    /\ IF g = "validate" THEN TRUE ELSE UNCHANGED validateVars
    /\ IF g = "orch" THEN TRUE ELSE UNCHANGED orchVars
    /\ IF g = "proc" THEN TRUE ELSE UNCHANGED procVars
    /\ IF g = "merge" THEN TRUE ELSE UNCHANGED mergeVars
    /\ IF g = "render" THEN TRUE ELSE UNCHANGED renderVars
    /\ IF g = "metrics" THEN TRUE ELSE UNCHANGED metricsVars
    /\ IF g = "session" THEN TRUE ELSE UNCHANGED sessionVars

(***************************************************************************)
(* Bounds of the model.                                                    *)
(***************************************************************************)
\* Number of segments an initial index.html is assembled from.
MaxSegs == 4
\* Number of splice calls in one run.
MaxCalls == 1
\* Number of words a title or an abstract is assembled from.
MaxWords == 2

(***************************************************************************)
(* Python string primitives.                                               *)
(***************************************************************************)
Min(S) == CHOOSE x \in S : \A y \in S : x <= y

\* s.find(sub, start): lowest 0-based offset >= start where sub occurs, or -1.
Find(s, sub, start) ==
    LET hits == { i \in start..(Len(s) - Len(sub)) : SubSeq(s, i + 1, i + Len(sub)) = sub }
    IN  IF hits = {} THEN -1 ELSE Min(hits)

\* s[:n] and s[n:] for 0 <= n.
Before(s, n) == SubSeq(s, 1, n)
From(s, n) == SubSeq(s, n + 1, Len(s))

\* sub in s
Contains(s, sub) ==
    \E i \in 0..(Len(s) - Len(sub)) : SubSeq(s, i + 1, i + Len(sub)) = sub

\* Number of (possibly overlapping) occurrences of sub in s.
Occurrences(s, sub) ==
    Cardinality({ i \in 0..(Len(s) - Len(sub)) : SubSeq(s, i + 1, i + Len(sub)) = sub })

\* The letters str.lower() changes (ASCII).
LowerTable ==
    [ A |-> "a", B |-> "b", C |-> "c", D |-> "d", E |-> "e", F |-> "f", G |-> "g",
      H |-> "h", I |-> "i", J |-> "j", K |-> "k", L |-> "l", M |-> "m", N |-> "n",
      O |-> "o", P |-> "p", Q |-> "q", R |-> "r", S |-> "s", T |-> "t", U |-> "u",
      V |-> "v", W |-> "w", X |-> "x", Y |-> "y", Z |-> "z" ]

LowerChar(c) == IF c \in DOMAIN LowerTable THEN LowerTable[c] ELSE c

RECURSIVE Lower(_)
\* s.lower()
Lower(s) ==
    IF Len(s) = 0 THEN ""
    ELSE LowerChar(SubSeq(s, 1, 1)) \o Lower(SubSeq(s, 2, Len(s)))

(***************************************************************************)
(* Markers of the template document.                                       *)
(***************************************************************************)
NewsStartMarker == "        <!-- News Section -->"
NewsEndMarker == "        <!-- Recent Publications -->"

PubStartMarker == "                <!-- Publication Categories -->"
PubStatsMarker == "                <!-- Publication Stats -->"
PubImpactMarker == "                <!-- Publication Impact -->"
SpacesMarker == "       "
PubEndMarkers == <<PubStatsMarker, PubImpactMarker, SpacesMarker>>

StatsStartMarker == "        <!-- Statistics -->"
StatsEndMarker == "        </section>"

ImpactStartMarker == "                <div style=\"margin-top: 5rem;\">"
ImpactEndMarkers ==
    << "                </div>\n\n            </div>",
       "                </div>\n            </div>",
       "            </div>\n        </section>",
       "        </section>" >>

\* FirstFound taking the candidate that occurs earliest in the document
\* instead of the first candidate of the list that occurs.
FirstFound_Earliest(content, markers, from) ==
    LET found == { k \in 1..Len(markers) : Find(content, markers[k], from) # -1 }
    IN  IF found = {} THEN 0
        ELSE CHOOSE k \in found :
                \A j \in found :
                    \/ Find(content, markers[k], from) < Find(content, markers[j], from)
                    \/ (Find(content, markers[k], from) = Find(content, markers[j], from) /\ k <= j)

\* The loop "for marker in markers: pos = content.find(marker, from); if pos
\* != -1: break": index of the first candidate found, 0 when none is.
FirstFound(content, markers, from) ==
    LET found == { k \in 1..Len(markers) : Find(content, markers[k], from) # -1 }
    IN  IF found = {} THEN 0 ELSE Min(found)

(***************************************************************************)
(* The four splice operations, as functions from the content read and the  *)
(* fragment to [ok |-> returned value, content |-> index.html afterwards]. *)
(***************************************************************************)
Failed(content) == [ok |-> FALSE, content |-> content]

\* s.rfind(sub): highest 0-based offset where sub occurs, or -1.
FindLast(s, sub) ==
    LET hits == { i \in 0..(Len(s) - Len(sub)) : SubSeq(s, i + 1, i + Len(sub)) = sub }
    IN  IF hits = {} THEN -1 ELSE CHOOSE x \in hits : \A y \in hits : y <= x

\* NewsSplice cutting after the end marker instead of at its first character.
NewsSplice_DropsEndMarker(content, news_html) ==
    LET news_start == Find(content, NewsStartMarker, 0)
        news_end == Find(content, NewsEndMarker, news_start)
    IN  IF news_start = -1 THEN Failed(content)
        ELSE IF news_end = -1 THEN Failed(content)
        ELSE [ok |-> TRUE,
              content |-> Before(content, news_start) \o news_html \o "\n\n"
                            \o From(content, news_end + Len(NewsEndMarker))]

\* NewsSplice taking the last occurrence of the start marker.
NewsSplice_LastStart(content, news_html) ==
    LET news_start == FindLast(content, NewsStartMarker)
        news_end == Find(content, NewsEndMarker, news_start)
    IN  IF news_start = -1 THEN Failed(content)
        ELSE IF news_end = -1 THEN Failed(content)
        ELSE [ok |-> TRUE,
              content |-> Before(content, news_start) \o news_html \o "\n\n"
                            \o From(content, news_end)]

NewsSplice(content, news_html) ==
    LET news_start == Find(content, NewsStartMarker, 0)
        news_end == Find(content, NewsEndMarker, news_start)
    IN  IF news_start = -1 THEN Failed(content)
        ELSE IF news_end = -1 THEN Failed(content)
        ELSE [ok |-> TRUE,
              content |-> Before(content, news_start) \o news_html \o "\n\n"
                            \o From(content, news_end)]

PubEndPos(content, start_pos) ==
    LET from == start_pos + Len(PubStartMarker)
        k == FirstFound(content, PubEndMarkers, from)
    IN  IF k = 0 THEN -1 ELSE Find(content, PubEndMarkers[k], from)

\* PubSplice without content[:start_pos] in front of the fragment.
PubSplice_DropsPrefix(content, publications_html) ==
    LET start_pos == Find(content, PubStartMarker, 0)
        end_pos == PubEndPos(content, start_pos)
    IN  IF start_pos = -1 THEN Failed(content)
        ELSE IF end_pos = -1 THEN Failed(content)
        ELSE [ok |-> TRUE,
              content |-> publications_html \o "\n\n" \o From(content, end_pos)]

PubSplice(content, publications_html) ==
    LET start_pos == Find(content, PubStartMarker, 0)
        end_pos == PubEndPos(content, start_pos)
    IN  IF start_pos = -1 THEN Failed(content)
        ELSE IF end_pos = -1 THEN Failed(content)
        ELSE [ok |-> TRUE,
              content |-> Before(content, start_pos) \o publications_html \o "\n\n"
                            \o From(content, end_pos)]

\* StatsEndPos without "end_pos += len(end_marker)".
StatsEndPos_KeepsEndMarker(content, start_pos) ==
    Find(content, StatsEndMarker, start_pos + Len(StatsStartMarker))

StatsEndPos(content, start_pos) ==
    LET search_start == start_pos + Len(StatsStartMarker)
        end_pos == Find(content, StatsEndMarker, search_start)
    IN  IF end_pos = -1 THEN -1 ELSE end_pos + Len(StatsEndMarker)

StatsSplice(content, stats_html) ==
    LET start_pos == Find(content, StatsStartMarker, 0)
        end_pos == StatsEndPos(content, start_pos)
    IN  IF start_pos = -1 THEN Failed(content)
        ELSE IF end_pos = -1 THEN Failed(content)
        ELSE [ok |-> TRUE,
              content |-> Before(content, start_pos) \o stats_html
                            \o From(content, end_pos)]

ImpactEndPos(content, start_pos) ==
    LET search_start == start_pos + Len(ImpactStartMarker)
        k == FirstFound(content, ImpactEndMarkers, search_start)
    IN  IF k = 0 THEN -1
        ELSE Find(content, ImpactEndMarkers[k], search_start) + Len(ImpactEndMarkers[k])

\* ImpactSplice without the "if end_pos == -1" check.
ImpactSplice_NoEndCheck(content, impact_html) ==
    LET start_pos == Find(content, ImpactStartMarker, 0)
        end_pos == ImpactEndPos(content, start_pos)
    IN  IF start_pos = -1 THEN Failed(content)
        ELSE [ok |-> TRUE,
              content |-> Before(content, start_pos) \o impact_html
                            \o (IF end_pos = -1 THEN SubSeq(content, Len(content), Len(content))
                                ELSE From(content, end_pos))]

ImpactSplice(content, impact_html) ==
    LET start_pos == Find(content, ImpactStartMarker, 0)
        end_pos == ImpactEndPos(content, start_pos)
    IN  IF start_pos = -1 THEN Failed(content)
        ELSE IF end_pos = -1 THEN Failed(content)
        ELSE [ok |-> TRUE,
              content |-> Before(content, start_pos) \o impact_html
                            \o From(content, end_pos)]

(***************************************************************************)
(* The documents index.html starts as: up to MaxSegs lines drawn from the  *)
(* lines one region of the template is made of (its markers, indented and  *)
(* plain text), in any order, so that markers may be absent, repeated or   *)
(* out of order.                                                           *)
(***************************************************************************)
NewsLines ==
    { NewsStartMarker \o "\n", NewsEndMarker \o "\n", "<p>a</p>\n", "<p>b</p>\n" }

PubLines ==
    { PubStartMarker \o "\n", PubStatsMarker \o "\n", PubImpactMarker \o "\n",
      "        <p>a</p>\n", "<p>b</p>\n" }

StatsLines ==
    { StatsStartMarker \o "\n", StatsEndMarker \o "\n", "<p>a</p>\n", "<p>b</p>\n" }

ImpactLines ==
    { ImpactStartMarker \o "\n", "                </div>\n", "            </div>\n",
      "        </section>\n", "\n", "<p>a</p>\n" }

RECURSIVE Join(_)
Join(q) == IF Len(q) = 0 THEN "" ELSE Head(q) \o Join(Tail(q))

Docs(lines) == { Join(q) : q \in UNION { [1..n -> lines] : n \in 0..MaxSegs } }

Documents == Docs(NewsLines) \cup Docs(PubLines) \cup Docs(StatsLines) \cup Docs(ImpactLines)

\* Fragments handed to the splicers: one shaped as the generator of the
\* region shapes it (first and last line kept; the statistics section also
\* keeps the opening line of its partners block, which is the line the
\* impact splice searches for), one arbitrary.
NewsFragments == { NewsStartMarker \o "\n<h2>Lab News</h2>\n        </section>", "<p>n</p>" }
PubFragments == { PubStartMarker \o "\n<h3>2024 Publications</h3>\n                </div>", "<p>p</p>" }
StatsFragments ==
    { StatsStartMarker \o "\n<h3>42</h3>\n" \o ImpactStartMarker
        \o "\n<h3>Partners</h3>\n                </div>\n            </div>\n        </section>",
      "<p>s</p>" }
ImpactFragments == { ImpactStartMarker \o "\n<h2>Publication Impact</h2>\n                </div>", "<p>i</p>" }

SpliceInit ==
    /\ index_html \in Documents
    /\ backups = << >>
    /\ op = "none"
    /\ arg = ""
    /\ ret = FALSE
    /\ pre_html = ""
    /\ calls = 0
    /\ Idle("splice")

\* What every splice call records about itself.
Called(name, fragment, r) ==
    /\ calls < MaxCalls
    /\ calls' = calls + 1
    /\ op' = name
    /\ arg' = fragment
    /\ pre_html' = index_html
    /\ ret' = r.ok
    /\ index_html' = r.content
    /\ Frame("splice")

update_index_html_with_news ==
    \E news_html \in NewsFragments, backup \in BOOLEAN :
        /\ backups' = IF backup THEN Append(backups, index_html) ELSE backups
        /\ Called("update_index_html_with_news", news_html, NewsSplice(index_html, news_html))

update_index_html ==
    \E publications_html \in PubFragments :
        /\ Called("update_index_html", publications_html, PubSplice(index_html, publications_html))
        /\ UNCHANGED backups

update_main_stats_section ==
    \E stats_html \in StatsFragments :
        /\ Called("update_main_stats_section", stats_html, StatsSplice(index_html, stats_html))
        /\ UNCHANGED backups

update_html_metrics ==
    \E impact_html \in ImpactFragments :
        /\ Called("update_html_metrics", impact_html, ImpactSplice(index_html, impact_html))
        /\ UNCHANGED backups

SpliceNext ==
    \/ update_index_html_with_news
    \/ update_index_html
    \/ update_main_stats_section
    \/ update_html_metrics

SpliceSpec == SpliceInit /\ [][SpliceNext]_vars

(***************************************************************************)
(* Vocabulary of the splice properties, stated on offsets of the document  *)
(* independently of the operations above.                                  *)
(***************************************************************************)
NewsOp == "update_index_html_with_news"
PubOp == "update_index_html"
StatsOp == "update_main_stats_section"
ImpactOp == "update_html_metrics"

\* m occurs in s at 0-based offset i.
OccursAt(s, m, i) == i >= 0 /\ i + Len(m) <= Len(s) /\ SubSeq(s, i + 1, i + Len(m)) = m

\* m occurs in s at some offset >= from.
OccursFrom(s, m, from) == \E i \in from..Len(s) : OccursAt(s, m, i)

\* The first offset >= from at which m occurs in s (when it does).
FirstAt(s, m, from) ==
    CHOOSE i \in from..Len(s) :
        OccursAt(s, m, i) /\ \A j \in from..(i - 1) : ~OccursAt(s, m, j)

StartMarkerOf(o) ==
    CASE o = NewsOp -> NewsStartMarker
      [] o = PubOp -> PubStartMarker
      [] o = StatsOp -> StatsStartMarker
      [] o = ImpactOp -> ImpactStartMarker

\* The end markers an operation searches for, in its priority order.
EndMarkersOf(o) ==
    CASE o = NewsOp -> <<NewsEndMarker>>
      [] o = PubOp -> PubEndMarkers
      [] o = StatsOp -> <<StatsEndMarker>>
      [] o = ImpactOp -> ImpactEndMarkers

EndMarkerSet(o) == { EndMarkersOf(o)[k] : k \in 1..Len(EndMarkersOf(o)) }

StartPresent(o, doc) == OccursFrom(doc, StartMarkerOf(o), 0)

\* The offset just after the first start marker of o in doc.
AfterStart(o, doc) == FirstAt(doc, StartMarkerOf(o), 0) + Len(StartMarkerOf(o))

\* An end marker of o occurs in doc after the first start marker.
EndPresent(o, doc) ==
    \E m \in EndMarkerSet(o) : OccursFrom(doc, m, AfterStart(o, doc))

\* The end marker o matches in doc: the highest-priority candidate among
\* those occurring after the first start marker.
MatchedEnd(o, doc) ==
    LET ms == EndMarkersOf(o)
        k == CHOOSE i \in 1..Len(ms) :
                /\ OccursFrom(doc, ms[i], AfterStart(o, doc))
                /\ \A j \in 1..(i - 1) : ~OccursFrom(doc, ms[j], AfterStart(o, doc))
    IN  ms[k]

\* The offset at which the matched end marker starts.
MatchedEndAt(o, doc) == FirstAt(doc, MatchedEnd(o, doc), AfterStart(o, doc))

Succeeded(o) == op = o /\ ret

(***************************************************************************)
(* C1: for update_index_html_with_news and update_index_html, a successful *)
(* call writes content[0..s) + fragment + "\n\n" + content[e..], where s   *)
(* is the offset of the first start marker and e >= s the offset of an end *)
(* marker of the operation: the text before the start marker and the text  *)
(* from the first character of the end marker on are unchanged.            *)
(***************************************************************************)
C1_SpliceFrame ==
    \A o \in {NewsOp, PubOp} :
        Succeeded(o) =>
            /\ StartPresent(o, pre_html)
            /\ LET s == FirstAt(pre_html, StartMarkerOf(o), 0)
               IN  \E e \in s..Len(pre_html) :
                     /\ \E m \in EndMarkerSet(o) : OccursAt(pre_html, m, e)
                     /\ index_html = Before(pre_html, s) \o arg \o "\n\n" \o From(pre_html, e)

\* A successful news splice of a document with text before the start
\* marker and text after the end marker.
C1_Witness ==
    /\ Succeeded(NewsOp)
    /\ FirstAt(pre_html, NewsStartMarker, 0) > 0
    /\ Len(pre_html) > MatchedEndAt(NewsOp, pre_html) + Len(NewsEndMarker) + 1
    /\ index_html # pre_html

(***************************************************************************)
(* C2: for each of the four splice operations, if the start marker is      *)
(* absent, or none of the end markers the operation searches for occurs    *)
(* after it, the call returns False and index.html is unchanged.           *)
(***************************************************************************)
C2_FailureAtomic ==
    \A o \in {NewsOp, PubOp, StatsOp, ImpactOp} :
        (op = o /\ (~StartPresent(o, pre_html) \/ ~EndPresent(o, pre_html)))
            => (~ret /\ index_html = pre_html)

\* A call that found its start marker and no end marker after it.
C2_Witness ==
    /\ op = ImpactOp
    /\ StartPresent(ImpactOp, pre_html)
    /\ ~EndPresent(ImpactOp, pre_html)
    /\ \E m \in EndMarkerSet(ImpactOp) : OccursFrom(pre_html, m, 0)
    /\ ~ret

(***************************************************************************)
(* C3 as stated: after a successful update_main_stats_section or           *)
(* update_html_metrics, the text following the inserted fragment is the    *)
(* old document from the first character of the matched end marker on      *)
(* (the end marker is retained).                                           *)
(***************************************************************************)
C3_EndMarkerRetained ==
    \A o \in {StatsOp, ImpactOp} :
        Succeeded(o) =>
            index_html = Before(pre_html, FirstAt(pre_html, StartMarkerOf(o), 0)) \o arg
                           \o From(pre_html, MatchedEndAt(o, pre_html))

(***************************************************************************)
(* C3 amended: after a successful update_main_stats_section or             *)
(* update_html_metrics, the text following the inserted fragment is the    *)
(* old document from the character just after the matched end marker on:   *)
(* the end marker belongs to the replaced region, nothing after it is      *)
(* removed, and no separator is inserted.                                  *)
(***************************************************************************)
C3_EndMarkerReplaced ==
    \A o \in {StatsOp, ImpactOp} :
        Succeeded(o) =>
            index_html = Before(pre_html, FirstAt(pre_html, StartMarkerOf(o), 0)) \o arg
                           \o From(pre_html, MatchedEndAt(o, pre_html)
                                               + Len(MatchedEnd(o, pre_html)))

\* A successful statistics splice with text following the end marker.
C3_Witness ==
    /\ Succeeded(StatsOp)
    /\ Len(pre_html) > MatchedEndAt(StatsOp, pre_html) + Len(StatsEndMarker) + 1

(***************************************************************************)
(* C4 as stated: if the start marker or an end marker of the region occurs *)
(* more than once in index.html, the splice reports failure and does not   *)
(* write index.html.                                                       *)
(***************************************************************************)
Duplicated(o, doc) ==
    \/ Occurrences(doc, StartMarkerOf(o)) > 1
    \/ \E m \in EndMarkerSet(o) : Occurrences(doc, m) > 1

C4_UniqueMarkersRequired ==
    \A o \in {NewsOp, PubOp} :
        (op = o /\ Duplicated(o, pre_html)) => (~ret /\ index_html = pre_html)

(***************************************************************************)
(* C4 amended: the splicers do not check uniqueness.  If the start marker  *)
(* or an end marker occurs more than once, the call still succeeds         *)
(* whenever an end marker occurs after the first start marker, and it      *)
(* replaces the text from the first occurrence of the start marker up to   *)
(* the first occurrence after it of the matched end marker.                *)
(***************************************************************************)
C4_FirstOccurrencesUsed ==
    \A o \in {NewsOp, PubOp} :
        (op = o /\ Duplicated(o, pre_html) /\ StartPresent(o, pre_html)
              /\ EndPresent(o, pre_html))
            => /\ ret
               /\ index_html = Before(pre_html, FirstAt(pre_html, StartMarkerOf(o), 0))
                                 \o arg \o "\n\n"
                                 \o From(pre_html, MatchedEndAt(o, pre_html))

\* A successful news splice of a document holding two start markers and
\* two end markers.
C4_Witness ==
    /\ Succeeded(NewsOp)
    /\ Occurrences(pre_html, NewsStartMarker) > 1
    /\ Occurrences(pre_html, NewsEndMarker) > 1

(***************************************************************************)
(* C5: update_index_html uses no fuzzy fallback: when neither the          *)
(* Publication Stats nor the Publication Impact marker occurs after the    *)
(* start marker, the call fails and index.html is unchanged.               *)
(***************************************************************************)
C5_NoFuzzyFallback ==
    (/\ op = PubOp
     /\ StartPresent(PubOp, pre_html)
     /\ ~OccursFrom(pre_html, PubStatsMarker, AfterStart(PubOp, pre_html))
     /\ ~OccursFrom(pre_html, PubImpactMarker, AfterStart(PubOp, pre_html)))
        => (~ret /\ index_html = pre_html)

(***************************************************************************)
(* C6: for update_index_html and update_html_metrics, every candidate end  *)
(* marker is searched from the offset just after the start marker; the     *)
(* region end is the first occurrence there of the highest-priority        *)
(* candidate that occurs there, even when a lower-priority candidate       *)
(* occurs earlier; the call fails only if no candidate occurs there.       *)
(***************************************************************************)
C6_EndMarkerPriority ==
    \A o \in {PubOp, ImpactOp} :
        (op = o /\ StartPresent(o, pre_html)) =>
            IF EndPresent(o, pre_html)
            THEN /\ ret
                 /\ LET s == FirstAt(pre_html, StartMarkerOf(o), 0)
                        e == MatchedEndAt(o, pre_html)
                    IN  index_html =
                          IF o = PubOp
                          THEN Before(pre_html, s) \o arg \o "\n\n" \o From(pre_html, e)
                          ELSE Before(pre_html, s) \o arg
                                 \o From(pre_html, e + Len(MatchedEnd(o, pre_html)))
            ELSE ~ret /\ index_html = pre_html

\* A successful publications splice that ended the region at the
\* Publication Stats marker although the Publication Impact marker occurs
\* before it.
C6_Witness ==
    /\ Succeeded(PubOp)
    /\ MatchedEnd(PubOp, pre_html) = PubStatsMarker
    /\ OccursFrom(pre_html, PubImpactMarker, AfterStart(PubOp, pre_html))
    /\ FirstAt(pre_html, PubImpactMarker, AfterStart(PubOp, pre_html))
         < MatchedEndAt(PubOp, pre_html)

(***************************************************************************)
(* The classifier: categorize_publication.                                 *)
(***************************************************************************)
TOPICS ==
    << [topic |-> "deep-learning", keywords |->
          << "deep learning", "neural network", "CNN", "RNN", "LSTM", "transformer",
             "attention", "GNN", "graph neural", "convolution", "deep", "learning model" >>],
       [topic |-> "machine-learning", keywords |->
          << "machine learning", "classification", "clustering", "regression",
             "supervised", "unsupervised", "ensemble", "random forest", "SVM" >>],
       [topic |-> "reinforcement-learning", keywords |->
          << "reinforcement learning", "Q-learning", "policy", "reward", "agent",
             "multi-armed bandit", "thompson sampling", "DRL", "deep reinforcement" >>],
       [topic |-> "time-series", keywords |->
          << "time series", "temporal", "forecasting", "prediction", "sequential",
             "ARIMA", "spatiotemporal", "passenger flow", "traffic" >>],
       [topic |-> "anomaly-detection", keywords |->
          << "anomaly detection", "change detection", "outlier", "monitoring",
             "fault detection", "defect", "quality control" >>],
       [topic |-> "causal-inference", keywords |->
          << "causal", "causality", "DAG", "directed acyclic", "causal discovery",
             "causal graph", "intervention" >>],
       [topic |-> "bayesian-methods", keywords |->
          << "bayesian", "prior", "posterior", "MCMC", "bayesian network",
             "probabilistic", "belief network" >>],
       [topic |-> "tensor-methods", keywords |->
          << "tensor", "tensor decomposition", "tucker", "CP decomposition",
             "tensor completion", "tensor factorization" >>],
       [topic |-> "functional-data", keywords |->
          << "functional data", "functional", "profile", "curve", "FDA",
             "functional principal component" >>],
       [topic |-> "graph-learning", keywords |->
          << "graph", "network", "community detection", "graph learning",
             "relational", "node", "edge", "connectivity" >>],
       [topic |-> "statistical-modeling", keywords |->
          << "statistical", "regression", "hypothesis", "significance",
             "inference", "estimation", "ANOVA", "GLM" >>],
       [topic |-> "optimization", keywords |->
          << "optimization", "bilevel", "constraint", "objective function",
             "linear programming", "convex", "optimization problem" >>],
       [topic |-> "transportation", keywords |->
          << "metro", "subway", "transportation", "traffic", "urban",
             "passenger", "mobility", "transit" >>],
       [topic |-> "manufacturing", keywords |->
          << "manufacturing", "production", "industrial", "semiconductor",
             "assembly", "supply chain", "remanufacturing" >>],
       [topic |-> "medical-ai", keywords |->
          << "medical", "clinical", "diagnosis", "patient", "healthcare",
             "disease", "immunofixation", "glaucoma" >>],
       [topic |-> "llms", keywords |->
          << "large language model", "large language models", "LLM", "LLMs",
             "language model", "GPT", "BERT",
             "natural language", "NLP", "text generation", "language understanding" >>] >>

\* pub.get(key, default)
Get(record, key, default) == IF key \in DOMAIN record THEN record[key] ELSE default

\* TopicText that forgets ".lower()".
TopicText_NotLowered(p) == Get(p, "title", "") \o " " \o Get(p, "abstract", "")

\* text = (pub.get('title', '') + ' ' + pub.get('abstract', '')).lower()
TopicText(p) == Lower(Get(p, "title", "") \o " " \o Get(p, "abstract", ""))

\* keyword.lower() of every keyword of TOPICS (the table is static, so each
\* is lower-cased once here instead of once per record).
LoweredKeywords ==
    [ t \in 1..Len(TOPICS) |->
        [ i \in 1..Len(TOPICS[t].keywords) |-> Lower(TOPICS[t].keywords[i]) ] ]

RECURSIVE KeywordLoop(_, _, _)
\* "for keyword in keywords: if keyword.lower() in text: ... break", from the
\* i-th keyword of the t-th topic on: whether the topic is added.
KeywordLoop(t, i, text) ==
    IF i > Len(LoweredKeywords[t]) THEN FALSE
    ELSE IF Contains(text, LoweredKeywords[t][i]) THEN TRUE
    ELSE KeywordLoop(t, i + 1, text)

RECURSIVE TopicLoop_StopsAtFirstTopic(_, _, _)
\* TopicLoop whose "break" leaves the loop over the topics too.
TopicLoop_StopsAtFirstTopic(i, text, matching_topics) ==
    IF i > Len(TOPICS) THEN matching_topics
    ELSE IF KeywordLoop(i, 1, text)
         THEN matching_topics \cup {TOPICS[i].topic}
         ELSE TopicLoop_StopsAtFirstTopic(i + 1, text, matching_topics)

RECURSIVE TopicLoop(_, _, _)
\* "for topic, keywords in TOPICS.items(): ...", from the i-th topic on.
TopicLoop(i, text, matching_topics) ==
    IF i > Len(TOPICS) THEN matching_topics
    ELSE TopicLoop(i + 1, text,
                   IF KeywordLoop(i, 1, text)
                   THEN matching_topics \cup {TOPICS[i].topic}
                   ELSE matching_topics)

\* any(k in venue for k in keywords)
AnyIn(keywords, venue) == \E i \in 1..Len(keywords) : Contains(venue, keywords[i])

ConferenceKeywords == << "conference", "proceedings", "aaai", "ijcai", "kdd", "ecml" >>
JournalKeywords == << "journal", "transactions", "technometrics" >>

\* VenueCategory testing the conference keywords before 'ieee'.
VenueCategory_ConferenceFirst(venue) ==
    IF AnyIn(ConferenceKeywords, venue) THEN "conferences"
    ELSE IF Contains(venue, "ieee") THEN "ieee"
    ELSE IF AnyIn(JournalKeywords, venue) THEN "journals"
    ELSE IF Contains(venue, "arxiv") \/ Contains(venue, "preprint") THEN "conferences"
    ELSE "journals"

\* VenueCategory testing the journal keywords before the conference ones.
VenueCategory_JournalFirst(venue) ==
    IF Contains(venue, "ieee") THEN "ieee"
    ELSE IF AnyIn(JournalKeywords, venue) THEN "journals"
    ELSE IF AnyIn(ConferenceKeywords, venue) THEN "conferences"
    ELSE IF Contains(venue, "arxiv") \/ Contains(venue, "preprint") THEN "conferences"
    ELSE "journals"

\* The if/elif chain on the lower-cased venue.
VenueCategory(venue) ==
    IF Contains(venue, "ieee") THEN "ieee"
    ELSE IF AnyIn(ConferenceKeywords, venue) THEN "conferences"
    ELSE IF AnyIn(JournalKeywords, venue) THEN "journals"
    ELSE IF Contains(venue, "arxiv") \/ Contains(venue, "preprint") THEN "conferences"
    ELSE "journals"

categorize_publication(p) ==
    [ topics |-> TopicLoop(1, TopicText(p), {}),
      venue_category |-> VenueCategory(Lower(Get(p, "venue", ""))) ]

(***************************************************************************)
(* The records handed to the classifier: any subset of the fields title,   *)
(* abstract and venue, a title of up to MaxWords words.                    *)
(***************************************************************************)
TitleWords == { "CNN", "Traffic", "regression", "Language", "Survey" }

RECURSIVE Phrases(_)
Phrases(n) ==
    IF n = 0 THEN {""}
    ELSE LET shorter == Phrases(n - 1)
         IN  shorter \cup TitleWords
               \cup { q \o " " \o w : q \in shorter \ {""}, w \in TitleWords }

Titles == Phrases(MaxWords) \cup { "A Study of CNN Models" }
Abstracts == { "", "model of LSTM cells", "a Bayesian prior" }
Venues ==
    { "", "IEEE Conference on Robotics", "ieee journal", "Proceedings of AAAI",
      "Journal of Proceedings", "Technometrics", "arXiv preprint", "arXiv Journal",
      "KDD Transactions", "Nature", "Unknown Venue" }

Publications ==
    { [k \in D |-> [title |-> t, abstract |-> a, venue |-> v][k]] :
        D \in SUBSET {"title", "abstract", "venue"},
        t \in Titles, a \in Abstracts, v \in Venues }

ClassifyInit ==
    /\ pub \in Publications
    /\ cat_result = NoResult
    /\ Idle("classify")

\* One run classifies its record once.
Categorize ==
    /\ cat_result = NoResult
    /\ cat_result' = categorize_publication(pub)
    /\ UNCHANGED pub
    /\ Frame("classify")

ClassifyNext == Categorize

ClassifySpec == ClassifyInit /\ [][ClassifyNext]_vars

(***************************************************************************)
(* Vocabulary of the classifier properties.                                *)
(***************************************************************************)
Classified == cat_result # NoResult

UpperTable ==
    [ a |-> "A", b |-> "B", c |-> "C", d |-> "D", e |-> "E", f |-> "F", g |-> "G",
      h |-> "H", i |-> "I", j |-> "J", k |-> "K", l |-> "L", m |-> "M", n |-> "N",
      o |-> "O", p |-> "P", q |-> "Q", r |-> "R", s |-> "S", t |-> "T", u |-> "U",
      v |-> "V", w |-> "W", x |-> "X", y |-> "Y", z |-> "Z" ]

\* c with its case changed as mode says: "upper", "swap" or "same".
Recased(c, mode) ==
    IF mode = "same" THEN c
    ELSE IF c \in DOMAIN UpperTable THEN UpperTable[c]
    ELSE IF mode = "swap" /\ c \in DOMAIN LowerTable THEN LowerTable[c]
    ELSE c

RECURSIVE Recase(_, _)
Recase(s, mode) ==
    IF Len(s) = 0 THEN ""
    ELSE Recased(SubSeq(s, 1, 1), mode) \o Recase(SubSeq(s, 2, Len(s)), mode)

CaseModes == { "same", "upper", "swap" }

\* The record p with the case of its title changed as mt says and that of
\* its abstract as ma says; every other field, and which fields are
\* present, as in p.
RecasedPub(p, mt, ma) ==
    [ k \in DOMAIN p |->
        IF k = "title" THEN Recase(p[k], mt)
        ELSE IF k = "abstract" THEN Recase(p[k], ma)
        ELSE p[k] ]

VenueOf(p) == Lower(Get(p, "venue", ""))

HasAny(venue, keywords) == \E k \in keywords : Contains(venue, k)

(***************************************************************************)
(* C7: the venue category categorize_publication returns is one of ieee,   *)
(* journals, conferences, and it is ieee whenever the lower-cased venue    *)
(* contains "ieee", whatever conference or journal keyword it also holds.  *)
(***************************************************************************)
C7_VenueCategoryIeeeFirst ==
    Classified =>
        /\ cat_result.venue_category \in { "ieee", "journals", "conferences" }
        /\ Contains(VenueOf(pub), "ieee") => cat_result.venue_category = "ieee"

\* A venue holding both "ieee" and a conference keyword, classified ieee.
C7_Witness ==
    /\ Classified
    /\ Contains(VenueOf(pub), "ieee")
    /\ Contains(VenueOf(pub), "conference")
    /\ cat_result.venue_category = "ieee"

(***************************************************************************)
(* C8: for a venue without "ieee": a conference keyword gives conferences  *)
(* even if a journal keyword is present too; else a journal keyword gives  *)
(* journals; else "arxiv" or "preprint" gives conferences; else, also for  *)
(* an absent or empty venue, journals.                                     *)
(***************************************************************************)
C8_VenueRuleOrder ==
    (Classified /\ ~Contains(VenueOf(pub), "ieee")) =>
        cat_result.venue_category =
            IF HasAny(VenueOf(pub), {"conference", "proceedings", "aaai", "ijcai", "kdd", "ecml"})
            THEN "conferences"
            ELSE IF HasAny(VenueOf(pub), {"journal", "transactions", "technometrics"})
            THEN "journals"
            ELSE IF HasAny(VenueOf(pub), {"arxiv", "preprint"})
            THEN "conferences"
            ELSE "journals"

\* A venue holding a conference and a journal keyword, classified
\* conferences.
C8_Witness ==
    /\ Classified
    /\ ~Contains(VenueOf(pub), "ieee")
    /\ Contains(VenueOf(pub), "proceedings")
    /\ Contains(VenueOf(pub), "journal")
    /\ cat_result.venue_category = "conferences"

(***************************************************************************)
(* C9: the topic set is invariant under changes of letter case in title    *)
(* and abstract: every record that differs from pub only in the case of    *)
(* the characters of its title and abstract gets the topic set of pub.     *)
(***************************************************************************)
C9_TopicsCaseInvariant ==
    Classified =>
        \A mt \in CaseModes, ma \in CaseModes :
            categorize_publication(RecasedPub(pub, mt, ma)).topics = cat_result.topics

\* The title "A Study of CNN Models", classified deep-learning.
C9_Witness ==
    /\ Classified
    /\ "title" \in DOMAIN pub
    /\ pub.title = "A Study of CNN Models"
    /\ "deep-learning" \in cat_result.topics

(***************************************************************************)
(* C10: the topic set is exactly the set of topics of TOPICS one of whose  *)
(* keywords, lower-cased, is a substring of lower(title + " " + abstract), *)
(* an absent title or abstract counting as the empty string.               *)
(***************************************************************************)
C10_TopicsAreKeywordMatches ==
    Classified =>
        LET title == IF "title" \in DOMAIN pub THEN pub.title ELSE ""
            abstract == IF "abstract" \in DOMAIN pub THEN pub.abstract ELSE ""
            text == Lower(title \o " " \o abstract)
        IN  cat_result.topics =
              { TOPICS[t].topic :
                  t \in { u \in 1..Len(TOPICS) :
                            \E i \in 1..Len(TOPICS[u].keywords) :
                                Contains(text, LoweredKeywords[u][i]) } }

\* A record without abstract that matches several topics.
C10_Witness ==
    /\ Classified
    /\ "abstract" \notin DOMAIN pub
    /\ Cardinality(cat_result.topics) >= 2

(***************************************************************************)
(* format_authors (process_publications_updated.py): " and " becomes ", ", *)
(* one pass of re.sub(r',\s*,', ',') and a strip.                          *)
(***************************************************************************)
MaxPieces == 4

\* What Python's \s and str.strip() treat as white space (ASCII part).
IsSpace(c) == c \in { " ", "\t", "\n", "\r", "\f" }

\* str.replace(old, new): occurrences taken left to right, never overlapping,
\* and the inserted text is not scanned again.
RECURSIVE Replace(_, _, _)
Replace(s, old, new) ==
    IF Len(s) < Len(old) THEN s
    ELSE IF SubSeq(s, 1, Len(old)) = old
         THEN new \o Replace(From(s, Len(old)), old, new)
         ELSE SubSeq(s, 1, 1) \o Replace(From(s, 1), old, new)

\* The index of the first character at or after i (1-based) that is not
\* white space; Len(s) + 1 when there is none.
RECURSIVE SkipSpace(_, _)
SkipSpace(s, i) ==
    IF i <= Len(s) /\ IsSpace(SubSeq(s, i, i)) THEN SkipSpace(s, i + 1) ELSE i

\* re.sub(r',\s*,', ',', s): one left-to-right pass; a match is a comma, the
\* white space after it and a comma, and the scan resumes after the match.
RECURSIVE SubCommas(_)
SubCommas(s) ==
    IF Len(s) = 0 THEN s
    ELSE IF SubSeq(s, 1, 1) = ","
            /\ SkipSpace(s, 2) <= Len(s)
            /\ SubSeq(s, SkipSpace(s, 2), SkipSpace(s, 2)) = ","
         THEN "," \o SubCommas(From(s, SkipSpace(s, 2)))
         ELSE SubSeq(s, 1, 1) \o SubCommas(From(s, 1))

RECURSIVE LStrip(_)
LStrip(s) ==
    IF Len(s) > 0 /\ IsSpace(SubSeq(s, 1, 1)) THEN LStrip(From(s, 1)) ELSE s

RECURSIVE RStrip(_)
RStrip(s) ==
    IF Len(s) > 0 /\ IsSpace(SubSeq(s, Len(s), Len(s)))
    THEN RStrip(Before(s, Len(s) - 1))
    ELSE s

Strip(s) == LStrip(RStrip(s))

format_authors(authors_string) ==
    LET authors == Replace(authors_string, " and ", ", ")
    IN  Strip(SubCommas(authors))

\* Author strings: up to MaxPieces pieces, among them runs of commas and of
\* " and ".
AuthorPieces == { "A. Li", "B", ",", " ", " and " }

RECURSIVE AuthorStrings(_)
AuthorStrings(n) ==
    IF n = 0 THEN { "" }
    ELSE AuthorStrings(n - 1)
         \cup { s \o piece : s \in AuthorStrings(n - 1), piece \in AuthorPieces }

AuthorInit ==
    /\ authors_str \in AuthorStrings(MaxPieces)
    /\ authors_out = NoResult
    /\ Idle("authors")

FormatAuthors ==
    /\ authors_out = NoResult
    /\ authors_out' = Some(format_authors(authors_str))
    /\ UNCHANGED authors_str
    /\ Frame("authors")

AuthorNext == FormatAuthors

AuthorSpec == AuthorInit /\ [][AuthorNext]_vars

\* C11: format_authors is idempotent: formatting an already formatted
\* author string gives it back unchanged, runs of three or more commas and
\* of consecutive " and " included.
C11_FormatAuthorsIdempotent ==
    authors_out # NoResult
        => format_authors(authors_out.value) = authors_out.value

(***************************************************************************)
(* Grouping of publications by year: process_publications                  *)
(* (process_publications_updated.py) and                                   *)
(* AutoPublicationProcessor.generate_publications_html                     *)
(* (auto_process_publications.py) sort the list by year, newest first,     *)
(* group it by year and emit one section per year.                         *)
(***************************************************************************)
MaxPubs == 3

\* The year a record without 'year' sorts under, and the one it is grouped
\* under.
SortDefaultYear == 0
GroupDefaultYear == 2020

\* key=lambda x: x.get('year', 0)
SortKey(p) == Get(p, "year", SortDefaultYear)

\* Where a stable descending sort puts x into an already sorted list: behind
\* every element whose key is at least the key of x.
RECURSIVE InsertDesc(_, _)
InsertDesc(sorted, x) ==
    IF Len(sorted) = 0 THEN << x >>
    ELSE IF SortKey(sorted[1]) >= SortKey(x)
         THEN << sorted[1] >> \o InsertDesc(Tail(sorted), x)
         ELSE << x >> \o sorted

\* sorted(pubs, key=..., reverse=True) and list.sort(key=..., reverse=True):
\* descending by key, elements of equal key in their original order.
RECURSIVE SortByYearDesc(_)
SortByYearDesc(pubs) ==
    IF Len(pubs) = 0 THEN << >>
    ELSE InsertDesc(SortByYearDesc(SubSeq(pubs, 1, Len(pubs) - 1)), pubs[Len(pubs)])

\* year = pub.get('year', 2020)
YearOf(p) == Get(p, "year", GroupDefaultYear)

\* The grouping loop: years maps a year to the list of its records, each
\* record appended to the list of its year.
RECURSIVE GroupLoop(_, _, _)
GroupLoop(i, pubs, years) ==
    IF i > Len(pubs) THEN years
    ELSE LET year == YearOf(pubs[i])
             old  == IF year \in DOMAIN years THEN years[year] ELSE << >>
         IN  GroupLoop(i + 1, pubs,
                       [y \in DOMAIN years \cup { year } |->
                            IF y = year THEN Append(old, pubs[i]) ELSE years[y]])

Max(S) == CHOOSE x \in S : \A y \in S : x >= y

\* The year keys lowest first.
RECURSIVE YearOrder_Ascending(_)
YearOrder_Ascending(keys) ==
    IF keys = {} THEN << >>
    ELSE << Min(keys) >> \o YearOrder_Ascending(keys \ { Min(keys) })

\* sorted(years.keys(), reverse=True)
RECURSIVE YearOrder(_)
YearOrder(keys) ==
    IF keys = {} THEN << >>
    ELSE << Max(keys) >> \o YearOrder(keys \ { Max(keys) })

\* The sections in the order they are emitted: the year of each and the
\* records rendered under it.
YearSections(pubs) ==
    LET sorted_pubs == SortByYearDesc(pubs)
        years       == GroupLoop(1, sorted_pubs, << >>)
        order       == YearOrder(DOMAIN years)
    IN  [k \in 1..Len(order) |-> [year |-> order[k], pubs |-> years[order[k]]]]

\* Publication lists: up to MaxPubs records, with and without a year, the
\* same record possibly more than once.
PubTitles == { "a", "b" }
PubYears == { 2019, 2020, 2021 }
PubRecords ==
    [title : PubTitles, year : PubYears] \cup [title : PubTitles]

RECURSIVE PubLists(_)
PubLists(n) ==
    IF n = 0 THEN { << >> }
    ELSE PubLists(n - 1)
         \cup { Append(l, p) : l \in { m \in PubLists(n - 1) : Len(m) = n - 1 },
                               p \in PubRecords }

GroupInit ==
    /\ publications \in PubLists(MaxPubs)
    /\ year_groups = NoResult
    /\ grouped_by = "none"
    /\ Idle("group")

\* process_publications() of process_publications_updated.py on the loaded
\* list.
process_publications ==
    /\ year_groups = NoResult
    /\ year_groups' = Some(YearSections(publications))
    /\ grouped_by' = "process_publications"
    /\ UNCHANGED publications
    /\ Frame("group")

\* AutoPublicationProcessor.generate_publications_html: nothing is emitted
\* for an empty list.
generate_publications_html ==
    /\ year_groups = NoResult
    /\ year_groups' = IF Len(publications) = 0
                      THEN Some(<< >>)
                      ELSE Some(YearSections(publications))
    /\ grouped_by' = "generate_publications_html"
    /\ UNCHANGED publications
    /\ Frame("group")

GroupNext == process_publications \/ generate_publications_html

GroupSpec == GroupInit /\ [][GroupNext]_vars

\* Vocabulary of the grouping claims.
Grouped == year_groups # NoResult
Sections == year_groups.value

\* How often record p occurs in list l.
RECURSIVE CountIn(_, _)
CountIn(l, p) ==
    IF Len(l) = 0 THEN 0
    ELSE (IF l[1] = p THEN 1 ELSE 0) + CountIn(Tail(l), p)

RECURSIVE SumOver(_, _)
SumOver(k, p) ==
    IF k = 0 THEN 0 ELSE CountIn(Sections[k].pubs, p) + SumOver(k - 1, p)

\* The year a record is published under: its 'year', 2020 when it has none.
PublishedYear(p) == IF "year" \in DOMAIN p THEN p.year ELSE 2020

\* C12: the year groups are emitted in strictly descending year order, each
\* distinct year once, and every record is in exactly one group, that of its
\* year.
C12_YearsDescendingPartition ==
    Grouped =>
        /\ \A k \in 1..(Len(Sections) - 1) : Sections[k].year > Sections[k + 1].year
        /\ { Sections[k].year : k \in 1..Len(Sections) }
               = { PublishedYear(publications[i]) : i \in 1..Len(publications) }
        /\ \A k \in 1..Len(Sections) :
               \A n \in 1..Len(Sections[k].pubs) :
                   PublishedYear(Sections[k].pubs[n]) = Sections[k].year
        /\ \A p \in PubRecords : SumOver(Len(Sections), p) = CountIn(publications, p)

\* Three records of two years, one of them under the fallback year, grouped.
C12_Witness ==
    /\ Grouped
    /\ Len(publications) = 3
    /\ Len(Sections) = 2
    /\ \E i \in 1..Len(publications) : "year" \notin DOMAIN publications[i]
    /\ \E i \in 1..Len(publications) : SortKey(publications[i]) = 2021

\* The records of list l that are published under year y, in the order of l.
RECURSIVE OfYear(_, _)
OfYear(l, y) ==
    IF Len(l) = 0 THEN << >>
    ELSE (IF PublishedYear(l[1]) = y THEN << l[1] >> ELSE << >>) \o OfYear(Tail(l), y)

\* C13: within each year group the records keep the relative order they had
\* in the input list, records without a year in the 2020 group included.
C13_GroupKeepsInputOrder ==
    Grouped =>
        \A k \in 1..Len(Sections) :
            Sections[k].pubs = OfYear(publications, Sections[k].year)

(***************************************************************************)
(* News ids (scripts/add_news.py): get_next_news_id.                       *)
(***************************************************************************)
MaxItems == 3

DigitChars == << "0", "1", "2", "3", "4", "5", "6", "7", "8", "9" >>

IsDigit(c) == \E d \in 1..10 : DigitChars[d] = c

DigitValue(c) == (CHOOSE d \in 1..10 : DigitChars[d] = c) - 1

\* int(s) raised ValueError.  No parsed value is negative here: the text
\* parsed is a piece of a split on "-".
ValueError == -1

RECURSIVE DigitsValue(_, _)
DigitsValue(s, acc) ==
    IF Len(s) = 0 THEN acc
    ELSE IF IsDigit(SubSeq(s, 1, 1))
         THEN DigitsValue(From(s, 1), 10 * acc + DigitValue(SubSeq(s, 1, 1)))
         ELSE ValueError

\* int(s) on text without "-" and "_": surrounding white space is dropped, one
\* "+" is allowed, and what is left must be decimal digits, at least one.
ParseInt(s) ==
    LET t == Strip(s)
        u == IF Len(t) > 0 /\ SubSeq(t, 1, 1) = "+" THEN From(t, 1) ELSE t
    IN  IF Len(u) = 0 THEN ValueError ELSE DigitsValue(u, 0)

\* news_id.split('-')[1] for an id that holds a "-".
SecondSegment(news_id) ==
    LET first == Find(news_id, "-", 0)
        next  == Find(news_id, "-", first + 1)
    IN  IF next = -1
        THEN From(news_id, first + 1)
        ELSE SubSeq(news_id, first + 2, next)

StartsWith(s, prefix) ==
    Len(s) >= Len(prefix) /\ SubSeq(s, 1, Len(prefix)) = prefix

\* The loop over the items: the numbers of the ids that parse, in list order.
RECURSIVE NumbersLoop(_, _, _)
NumbersLoop(i, items, numbers) ==
    IF i > Len(items) THEN numbers
    ELSE LET news_id == Get(items[i], "id", "")
         IN  IF StartsWith(news_id, "news-")
                /\ ParseInt(SecondSegment(news_id)) # ValueError
             THEN NumbersLoop(i + 1, items,
                              Append(numbers, ParseInt(SecondSegment(news_id))))
             ELSE NumbersLoop(i + 1, items, numbers)

RECURSIVE Decimal(_)
Decimal(n) ==
    IF n < 10 THEN DigitChars[n + 1]
    ELSE Decimal(n \div 10) \o DigitChars[(n % 10) + 1]

\* Zeros in front until the text is w characters long; longer text is kept.
RECURSIVE ZeroPad(_, _)
ZeroPad(s, w) == IF Len(s) >= w THEN s ELSE ZeroPad("0" \o s, w)

Range(seq) == { seq[i] : i \in 1..Len(seq) }

\* The next number taken from the number of items instead of the largest id.
NextNum_CountPlusOne(items, numbers) == Len(items) + 1

NextNum(items, numbers) ==
    IF Len(numbers) > 0 THEN Max(Range(numbers)) + 1 ELSE 1

\* f"news-{next_num:03d}" cut to its last three digits.
FormatNewsId_Last3(next_num) == "news-" \o ZeroPad(Decimal(next_num % 1000), 3)

\* f"news-{next_num:03d}"
FormatNewsId(next_num) == "news-" \o ZeroPad(Decimal(next_num), 3)

get_next_news_id(items) ==
    IF Len(items) = 0 THEN "news-001"
    ELSE FormatNewsId(NextNum(items, NumbersLoop(1, items, << >>)))

\* Collections as they may stand in data/news.json: generated ids, ids with
\* gaps, large ids, hand-written ids that do not parse, a missing id.
StoredIds ==
    { "news-001", "news-003", "news-020", "news-998", "news-999", "news-1000",
      "news-", "news-abc", "news-7-2", "news-x-9", "news- 4", "item-500" }

StoredItems == [id : StoredIds] \cup { [title |-> "t"] }

RECURSIVE ItemLists(_)
ItemLists(n) ==
    IF n = 0 THEN { << >> }
    ELSE ItemLists(n - 1)
         \cup { Append(l, item) : l \in { m \in ItemLists(n - 1) : Len(m) = n - 1 },
                                  item \in StoredItems }

NewsIdInit ==
    /\ news_data \in ItemLists(MaxItems)
    /\ next_id = NoResult
    /\ news_section = NoResult
    /\ added = 0
    /\ last_add = "none"
    /\ Idle("news")

GetNextNewsId ==
    /\ next_id = NoResult
    /\ next_id' = Some(get_next_news_id(news_data))
    /\ UNCHANGED <<news_data, news_section, added, last_add>>
    /\ Frame("news")

NewsIdNext == GetNextNewsId

NewsIdSpec == NewsIdInit /\ [][NewsIdNext]_vars

\* Vocabulary of the id claims.
RECURSIVE Pow10(_)
Pow10(k) == IF k = 0 THEN 1 ELSE 10 * Pow10(k - 1)

AllDigits(s) == Len(s) > 0 /\ \A i \in 1..Len(s) : IsDigit(SubSeq(s, i, i))

\* The number a string of digits denotes: each digit times its power of ten.
RECURSIVE PlaceSum(_, _)
PlaceSum(s, i) ==
    IF i > Len(s) THEN 0
    ELSE DigitValue(SubSeq(s, i, i)) * Pow10(Len(s) - i) + PlaceSum(s, i + 1)

\* The digits of an integer literal: white space around it and a "+" in
\* front of it do not count.
LiteralDigits(seg) ==
    IF Len(Strip(seg)) > 0 /\ SubSeq(Strip(seg), 1, 1) = "+"
    THEN From(Strip(seg), 1)
    ELSE Strip(seg)

\* seg is the second "-"-separated segment of an id that starts with "news-".
IsSecondSegment(id, seg) ==
    /\ StartsWith(id, "news-")
    /\ StartsWith(id, "news-" \o seg)
    /\ ~Contains(seg, "-")
    /\ \/ id = "news-" \o seg
       \/ StartsWith(id, "news-" \o seg \o "-")

\* The numeric suffixes of the collection: one per item whose id starts with
\* "news-" and has an integer second segment.
NumericSuffixes(items) ==
    { PlaceSum(LiteralDigits(SubSeq(items[i].id, 6, 5 + k)), 1) :
        <<i, k>> \in { <<j, m>> \in (1..Len(items)) \X (0..8) :
                        /\ "id" \in DOMAIN items[j]
                        /\ 5 + m <= Len(items[j].id)
                        /\ IsSecondSegment(items[j].id, SubSeq(items[j].id, 6, 5 + m))
                        /\ AllDigits(LiteralDigits(SubSeq(items[j].id, 6, 5 + m))) } }

\* The number the next id is to carry.
ExpectedNumber(items) ==
    IF NumericSuffixes(items) = {} THEN 1 ELSE Max(NumericSuffixes(items)) + 1

\* The digits of a generated id: what follows "news-".
IdDigits(id) == From(id, 5)

\* C14: get_next_news_id returns "news-" followed by (the largest numeric
\* suffix among the ids that start with "news-" and have an integer second
\* segment) + 1, zero-padded to three digits; ids that do not parse are
\* ignored, and the result is "news-001" for an empty collection and for one
\* without a parseable id.
C14_NextIdIsMaxPlusOne ==
    next_id # NoResult =>
        /\ StartsWith(next_id.value, "news-")
        /\ AllDigits(IdDigits(next_id.value))
        /\ PlaceSum(IdDigits(next_id.value), 1) = ExpectedNumber(news_data)
        /\ Len(IdDigits(next_id.value)) >= 3
        /\ Len(IdDigits(next_id.value)) > 3 => SubSeq(IdDigits(next_id.value), 1, 1) # "0"
        /\ NumericSuffixes(news_data) = {} => next_id.value = "news-001"

\* The collection {news-001, news-003} next to an id that does not parse:
\* the next id is news-004.
C14_Witness ==
    /\ next_id = Some("news-004")
    /\ Len(news_data) = 3
    /\ \E i \in 1..3 : news_data[i] = [id |-> "news-001"]
    /\ \E i \in 1..3 : news_data[i] = [id |-> "news-003"]
    /\ \E i \in 1..3 : news_data[i] = [id |-> "news-abc"]

\* C16 as stated: every generated id is "news-" followed by exactly three
\* decimal digits, also when the largest suffix is 999 or more.
C16_ExactlyThreeDigits ==
    next_id # NoResult =>
        /\ StartsWith(next_id.value, "news-")
        /\ AllDigits(IdDigits(next_id.value))
        /\ Len(IdDigits(next_id.value)) = 3

\* C16 amended: every generated id is "news-" followed by decimal digits, at
\* least three of them; there are exactly three exactly when the number is
\* at most 999, and a longer id has no leading zero.
C16_AtLeastThreeDigits ==
    next_id # NoResult =>
        /\ StartsWith(next_id.value, "news-")
        /\ AllDigits(IdDigits(next_id.value))
        /\ Len(IdDigits(next_id.value)) >= 3
        /\ Len(IdDigits(next_id.value)) = 3 <=> ExpectedNumber(news_data) <= 999
        /\ Len(IdDigits(next_id.value)) > 3 => SubSeq(IdDigits(next_id.value), 1, 1) # "0"

\* The largest suffix is 999 and the generated id has four digits.
C16_Witness ==
    /\ next_id = Some("news-1000")
    /\ \E i \in 1..Len(news_data) : news_data[i] = [id |-> "news-999"]

(***************************************************************************)
(* add_news.main: one interactive run adds at most one item, at the front  *)
(* of the stored collection.                                               *)
(***************************************************************************)
MaxAdds == 3

\* The new item put behind the stored ones.
Insert0_AtEnd(list, item) == Append(list, item)

\* news_data.insert(0, news_item)
Insert0(list, item) == << item >> \o list

\* What the operator may type at the prompts.
TitleInputs == { "", "  ", "Best paper" }
DescriptionInputs == { "", "details" }
ConfirmInputs == { "y", " Yes ", "1", "n", "" }

IsConfirmed_Always(confirm) == TRUE

\* confirm in ['y', 'yes', '1']
IsConfirmed(confirm) == confirm \in { "y", "yes", "1" }

\* One run of main.  The date, icon and category prompts fill display fields
\* of the item that no other step reads; they are left out of the record.
\* A save that fails leaves data/news.json as it was.
add_news_main(title_in, description_in, featured, visible, confirm_in, saved) ==
    /\ added < MaxAdds
    /\ added' = added + 1
    /\ LET title       == Strip(title_in)
           description == Strip(description_in)
           news_item   == [id          |-> get_next_news_id(news_data),
                           title       |-> title,
                           description |-> description,
                           visible     |-> visible,
                           featured    |-> featured]
           confirm     == Lower(Strip(confirm_in))
       IN  IF title = "" \/ description = ""
           THEN /\ last_add' = "no item"
                /\ UNCHANGED news_data
           ELSE IF ~IsConfirmed(confirm)
           THEN /\ last_add' = "not added"
                /\ UNCHANGED news_data
           ELSE IF ~saved
           THEN /\ last_add' = "save failed"
                /\ UNCHANGED news_data
           ELSE /\ last_add' = "added"
                /\ news_data' = Insert0(news_data, news_item)
    /\ UNCHANGED <<next_id, news_section>>
    /\ Frame("news")

AddNewsInit ==
    /\ news_data = << >>
    /\ next_id = NoResult
    /\ news_section = NoResult
    /\ added = 0
    /\ last_add = "none"
    /\ Idle("news")

AddNewsNext ==
    \E title_in \in TitleInputs, description_in \in DescriptionInputs,
       featured \in BOOLEAN, visible \in BOOLEAN,
       confirm_in \in ConfirmInputs, saved \in BOOLEAN :
        add_news_main(title_in, description_in, featured, visible, confirm_in, saved)

AddNewsSpec == AddNewsInit /\ [][AddNewsNext]_vars

\* The number an id carries.
IdNumber(id) == PlaceSum(IdDigits(id), 1)

\* C15: after any sequence of add-news runs from an empty collection the ids
\* of the collection are pairwise distinct and strictly increasing in the
\* order of insertion: front to back (new items go to the front) the numbers
\* strictly decrease.
C15_IdsDistinctAndIncreasing ==
    \A i \in 1..Len(news_data) : \A j \in 1..Len(news_data) :
        /\ StartsWith(news_data[i].id, "news-")
        /\ AllDigits(IdDigits(news_data[i].id))
        /\ i < j => IdNumber(news_data[i].id) > IdNumber(news_data[j].id)
        /\ i # j => news_data[i].id # news_data[j].id

\* Two confirmed additions and a run that added nothing before the second.
C15_Witness ==
    /\ Len(news_data) = 2
    /\ added = 3
    /\ last_add = "added"
    /\ news_data[1].id = "news-002"

\* A text without a character that is not white space.
Blank(s) == \A k \in 1..Len(s) : IsSpace(SubSeq(s, k, k))

\* The answers that confirm the addition, as typed.
Affirmative(s) == \E a \in { "y", "yes", "1" } : Lower(Strip(s)) = a

\* C23: a run of add_news.main changes the stored collection only on a
\* confirmed add.  With a blank title or description, or an answer to the
\* confirmation that is not y, yes or 1, the collection is left as it was;
\* on a confirmed add that is saved the new item is at index 0 and every
\* item stored before follows it, unchanged and in the previous order.
C23_ChangeOnlyOnConfirmedAdd ==
    [][ \A title_in \in TitleInputs, description_in \in DescriptionInputs,
           featured \in BOOLEAN, visible \in BOOLEAN,
           confirm_in \in ConfirmInputs, saved \in BOOLEAN :
         add_news_main(title_in, description_in, featured, visible, confirm_in, saved) =>
            IF Blank(title_in) \/ Blank(description_in) \/ ~Affirmative(confirm_in) \/ ~saved
            THEN news_data' = news_data
            ELSE /\ Len(news_data') = Len(news_data) + 1
                 /\ news_data'[1].title = Strip(title_in)
                 /\ news_data'[1].description = Strip(description_in)
                 /\ news_data'[1].featured = featured
                 /\ news_data'[1].visible = visible
                 /\ \A i \in 1..Len(news_data) : news_data'[i + 1] = news_data[i] ]_vars

\* A third item added in front of two stored ones.
C23_Witness ==
    /\ Len(news_data) = 3
    /\ last_add = "added"
    /\ news_data[1].id = "news-003"
    /\ news_data[2].id = "news-002"

(***************************************************************************)
(* generate_news_section_html (scripts/generate_news_html.py): the         *)
(* featured block and the past block of the news section.                  *)
(***************************************************************************)
MaxNews == 6

\* featured_news[:5]
FeaturedLimit == 5

\* A slice that keeps the whole list.
Take_All(list, n) == list

\* list[:n]
Take(list, n) == SubSeq(list, 1, Min({ n, Len(list) }))

IsFeaturedNews(item) == Get(item, "featured", FALSE) /\ Get(item, "visible", TRUE)
IsPastNews_AnyVisible(item) == Get(item, "visible", TRUE)
IsPastNews(item) == ~Get(item, "featured", FALSE) /\ Get(item, "visible", TRUE)

\* [item for item in items if ...], for the featured block or the past one.
RECURSIVE Filter(_, _, _)
Filter(items, block, i) ==
    IF i > Len(items) THEN << >>
    ELSE (IF (IF block = "featured" THEN IsFeaturedNews(items[i]) ELSE IsPastNews(items[i]))
          THEN << items[i] >> ELSE << >>)
         \o Filter(items, block, i + 1)

\* The items of the two blocks, in the order generate_news_item_html renders
\* them into featured_html and past_html.
generate_news_section_html(items) ==
    LET featured_news == Filter(items, "featured", 1)
        past_news     == Filter(items, "past", 1)
    IN  [featured |-> Take(featured_news, FeaturedLimit), past |-> past_news]

\* The flags an item may carry; an item may carry neither or only one.
NewsFlags ==
    { [featured |-> TRUE, visible |-> TRUE],
      [featured |-> TRUE, visible |-> FALSE],
      [featured |-> FALSE, visible |-> TRUE],
      [featured |-> TRUE],
      [title |-> "t"] }

\* Collections as add_news builds them: the newest item in front, numbered
\* from the back.
RECURSIVE NewsLists(_)
NewsLists(n) ==
    IF n = 0 THEN { << >> }
    ELSE NewsLists(n - 1)
         \cup { Insert0(l, [id |-> FormatNewsId(n)] @@ flags) :
                    l \in { m \in NewsLists(n - 1) : Len(m) = n - 1 },
                    flags \in NewsFlags }

NewsRenderInit ==
    /\ news_data \in NewsLists(MaxNews)
    /\ next_id = NoResult
    /\ news_section = NoResult
    /\ added = 0
    /\ last_add = "none"
    /\ Idle("news")

GenerateNewsSection ==
    /\ news_section = NoResult
    /\ news_section' = Some(generate_news_section_html(news_data))
    /\ UNCHANGED <<news_data, next_id, added, last_add>>
    /\ Frame("news")

NewsRenderNext == GenerateNewsSection

NewsRenderSpec == NewsRenderInit /\ [][NewsRenderNext]_vars

\* Vocabulary of the rendering claim.
FeaturedFlag(item) == IF "featured" \in DOMAIN item THEN item.featured ELSE FALSE
VisibleFlag(item) == IF "visible" \in DOMAIN item THEN item.visible ELSE TRUE

\* The positions of the collection that hold featured visible items, and
\* those that hold visible items that are not featured.
FeaturedPositions(items) ==
    { i \in 1..Len(items) : FeaturedFlag(items[i]) /\ VisibleFlag(items[i]) }
PastPositions(items) ==
    { i \in 1..Len(items) : ~FeaturedFlag(items[i]) /\ VisibleFlag(items[i]) }

\* Position i is the k-th position of P, counted from the front.
Rank(P, i) == Cardinality({ j \in P : j <= i })

\* block holds the items at the first limit positions of P, in storage order.
IsBlockOf(block, items, P, limit) ==
    /\ Len(block) = IF Cardinality(P) <= limit THEN Cardinality(P) ELSE limit
    /\ \A i \in P : Rank(P, i) <= limit => block[Rank(P, i)] = items[i]

\* C17: in the section generate_news_section_html renders, the featured
\* block holds the first 5 featured visible items in storage order, the past
\* block holds every visible item that is not featured, without a cap, no
\* invisible item is in either block, and the stored collection is left as
\* it was.
C17_NewsBlocks ==
    [][ (news_section = NoResult /\ news_section' # NoResult) =>
            /\ IsBlockOf(news_section'.value.featured, news_data,
                         FeaturedPositions(news_data), 5)
            /\ IsBlockOf(news_section'.value.past, news_data,
                         PastPositions(news_data), Len(news_data))
            /\ \A item \in Range(news_section'.value.featured)
                       \cup Range(news_section'.value.past) : VisibleFlag(item)
            /\ news_data' = news_data ]_vars

\* Six featured visible items rendered: five of them in the featured block.
C17_Witness ==
    /\ news_section # NoResult
    /\ Cardinality(FeaturedPositions(news_data)) = 6
    /\ Len(news_section.value.featured) = 5

\* How many times the item stored at position i is rendered in a block.
TimesIn(block, items, i) == Cardinality({ k \in 1..Len(block) : block[k].id = items[i].id })

\* How many times it is rendered in the whole section.
TimesRendered(section, items, i) ==
    TimesIn(section.featured, items, i) + TimesIn(section.past, items, i)

\* C30: in the section generate_news_section_html renders no stored item is
\* rendered more than once, in particular never in both blocks, and a
\* featured visible item that is not among the first five featured visible
\* items in storage order is rendered in neither block.
C30_RenderedAtMostOnce ==
    news_section # NoResult =>
        \A i \in 1..Len(news_data) :
            /\ TimesRendered(news_section.value, news_data, i) <= 1
            /\ ( /\ FeaturedFlag(news_data[i])
                 /\ VisibleFlag(news_data[i])
                 /\ Rank(FeaturedPositions(news_data), i) > 5 )
               => TimesRendered(news_section.value, news_data, i) = 0

\* Six featured visible items: the first is rendered once, the sixth is
\* rendered in neither block.
C30_Witness ==
    /\ news_section # NoResult
    /\ FeaturedPositions(news_data) = 1..6
    /\ TimesRendered(news_section.value, news_data, 1) = 1
    /\ TimesRendered(news_section.value, news_data, 6) = 0

(***************************************************************************)
(* DataValidator (scripts/validate_data.py).  A file is a record: absent,  *)
(* not JSON, or present with its data.  A message is recorded with the     *)
(* index of the item it is about.                                          *)
(***************************************************************************)
MaxRecords == 2

\* datetime.now().year on the day of the run.
NowYear == 2025
\* The earliest year that is not unusual, and how far ahead a year may be.
MinYear == 1990
YearsAhead == 2

Msg(text, i) == [text |-> text, at |-> i]

\* JSON values of the fields the validator checks the type of, tagged with
\* their type; None is what dict.get returns for a missing key.
JBool(b) == [bool |-> b]
JInt(n) == [int |-> n]
JStr(t) == [str |-> t]
None == [none |-> TRUE]

\* What is appended to a list of messages when cond holds.
When(cond, message) == IF cond THEN << message >> ELSE << >>

\* The required-field loop of validate_json_file for item i.
RECURSIVE MissingFields(_, _, _, _)
MissingFields(item, i, required_fields, k) ==
    IF k > Len(required_fields) THEN << >>
    ELSE When(required_fields[k] \notin DOMAIN item,
              [text |-> "Missing required field", at |-> i, field |-> required_fields[k]])
         \o MissingFields(item, i, required_fields, k + 1)

RECURSIVE MissingLoop(_, _, _)
MissingLoop(data, required_fields, i) ==
    IF i > Len(data) THEN << >>
    ELSE MissingFields(data[i], i, required_fields, 1)
         \o MissingLoop(data, required_fields, i + 1)

\* validate_json_file on a file that holds a list: what it returns and what
\* it appends to errors.
validate_json_file(file, required_fields) ==
    IF file.state = "absent"
    THEN [ok |-> FALSE, errors |-> << Msg("File not found", 0) >>]
    ELSE IF file.state = "not json"
    THEN [ok |-> FALSE, errors |-> << Msg("Invalid JSON", 0) >>]
    ELSE [ok |-> TRUE, errors |-> MissingLoop(file.data, required_fields, 1)]

IsLeap(y) == (y % 4 = 0 /\ y % 100 # 0) \/ y % 400 = 0

DaysInMonth(y, m) ==
    IF m = 2 THEN (IF IsLeap(y) THEN 29 ELSE 28)
    ELSE IF m \in { 4, 6, 9, 11 } THEN 30 ELSE 31

\* datetime.strptime(s, '%Y-%m-%d') does not raise ValueError: four digits of
\* a year from 1 on, "-", one or two digits of a month, "-", one or two
\* digits of a day of that month, and nothing else.
StrptimeOk(s) ==
    LET a  == Find(s, "-", 0)
        b  == Find(s, "-", a + 1)
        ys == Before(s, a)
        ms == SubSeq(s, a + 2, b)
        ds == From(s, b + 1)
    IN  /\ a # -1 /\ b # -1
        /\ Len(ys) = 4 /\ Len(ms) \in 1..2 /\ Len(ds) \in 1..2
        /\ \A i \in 1..Len(s) : i \in { a + 1, b + 1 } \/ IsDigit(SubSeq(s, i, i))
        /\ DigitsValue(ys, 0) >= 1
        /\ DigitsValue(ms, 0) \in 1..12
        /\ DigitsValue(ds, 0) \in 1..DaysInMonth(DigitsValue(ys, 0), DigitsValue(ms, 0))

\* An unparseable date recorded as a warning.
NewsDateFinding_AsWarning(item, i) ==
    [errors   |-> << >>,
     warnings |-> When(~StrptimeOk(Get(item, "date", "")), Msg("Invalid date format", i))]

\* The date check of validate_news_data for item i.
NewsDateFinding(item, i) ==
    [errors   |-> When(~StrptimeOk(Get(item, "date", "")), Msg("Invalid date format", i)),
     warnings |-> << >>]

\* isinstance(item.get(field), bool)
IsBool(item, field) == "bool" \in DOMAIN Get(item, field, None)

\* The per-item loop of validate_news_data.
RECURSIVE NewsItemLoop(_, _, _)
NewsItemLoop(data, i, found) ==
    IF i > Len(data) THEN found
    ELSE NewsItemLoop(data, i + 1,
            [errors   |-> found.errors \o NewsDateFinding(data[i], i).errors,
             warnings |-> found.warnings
                          \o NewsDateFinding(data[i], i).warnings
                          \o When(~IsBool(data[i], "visible"), Msg("'visible' should be true/false", i))
                          \o When(~IsBool(data[i], "featured"), Msg("'featured' should be true/false", i))])

NewsRequiredFields ==
    << "id", "date", "month", "day", "year", "icon", "category", "title",
       "description", "visible", "featured" >>

validate_news_data(file) ==
    LET json == validate_json_file(file, NewsRequiredFields)
        ids  == [i \in 1..Len(file.data) |-> Get(file.data[i], "id", "None")]
    IN  IF ~json.ok THEN [errors |-> json.errors, warnings |-> << >>]
        ELSE NewsItemLoop(file.data, 1,
                [errors   |-> json.errors
                              \o When(Len(ids) # Cardinality(Range(ids)),
                                      Msg("Duplicate news IDs found", 0)),
                 warnings |-> << >>])

\* isinstance(v, int); a JSON boolean is an int as well.
IsInt(v) == "int" \in DOMAIN v \/ "bool" \in DOMAIN v

\* The number an int counts as in a comparison.
IntOf(v) == IF "int" \in DOMAIN v THEN v.int ELSE IF v.bool THEN 1 ELSE 0

\* The per-publication loop of validate_publications_data.
RECURSIVE PubLoop(_, _, _)
PubLoop(data, i, found) ==
    IF i > Len(data) THEN found
    ELSE LET pb        == data[i]
             year      == Get(pb, "year", None)
             title     == Strip(Get(pb, "title", ""))
             citations == Get(pb, "citations", JInt(0))
         IN  PubLoop(data, i + 1,
                [errors   |-> found.errors \o When(title = "", Msg("Empty title", i)),
                 warnings |-> found.warnings
                              \o When(IF IsInt(year)
                                      THEN IntOf(year) < MinYear
                                           \/ IntOf(year) > NowYear + YearsAhead
                                      ELSE TRUE,
                                      Msg("Unusual year value", i))
                              \o When(IF IsInt(citations) THEN IntOf(citations) < 0 ELSE TRUE,
                                      Msg("Invalid citations count", i))])

PubRequiredFields == << "title", "authors", "venue", "year" >>

validate_publications_data(file) ==
    LET json == validate_json_file(file, PubRequiredFields)
    IN  IF ~json.ok THEN [errors |-> json.errors, warnings |-> << >>]
        ELSE PubLoop(file.data, 1, [errors |-> json.errors, warnings |-> << >>])

\* validate_config_data; the file holds an object, so validate_json_file
\* checks no field of it.
validate_config_data(file) ==
    LET json     == validate_json_file([state |-> file.state, data |-> << >>], << >>)
        config   == file.data
        settings == Get(config, "settings", << >>)
        delay    == Get(settings, "delay_between_requests", 2)
    IN  IF ~json.ok THEN [errors |-> json.errors, warnings |-> << >>]
        ELSE [errors   |-> << >>,
              warnings |-> When(Get(config, "author_name", "") = "",
                                Msg("Config: Missing or empty 'author_name'", 0))
                           \o When(Get(config, "affiliation", "") = "",
                                   Msg("Config: Missing or empty 'affiliation'", 0))
                           \o When(delay < 1,
                                   Msg("Config: delay_between_requests should be >= 1 second", 0))]

RequiredSections ==
    << "<!-- News Section -->", "<!-- Publication Categories -->",
       "<!-- Recent Publications -->" >>

\* validate_html_integrity; the content is ASCII, one byte per character.
validate_html_integrity(file) ==
    IF file.state = "absent"
    THEN [errors |-> << Msg("Main HTML file (index.html) not found", 0) >>, warnings |-> << >>]
    ELSE [errors   |-> << >>,
          warnings |-> When(~Contains(file.data, RequiredSections[1]), Msg("HTML: Missing section marker", 1))
                       \o When(~Contains(file.data, RequiredSections[2]), Msg("HTML: Missing section marker", 2))
                       \o When(~Contains(file.data, RequiredSections[3]), Msg("HTML: Missing section marker", 3))
                       \o When(Len(file.data) < 10 * 1024, Msg("HTML file seems too small", 0))
                       \o When(Len(file.data) >= 10 * 1024 /\ Len(file.data) > 1000 * 1024,
                               Msg("HTML file seems very large", 0))]

\* The four validators in the order validate_system runs them.
SystemFindings(news, pubs, config, html) ==
    LET n == validate_news_data(news)
        p == validate_publications_data(pubs)
        c == validate_config_data(config)
        h == validate_html_integrity(html)
    IN  [errors   |-> n.errors \o p.errors \o c.errors \o h.errors,
         warnings |-> n.warnings \o p.warnings \o c.warnings \o h.warnings]

\* The files a run may find.
File(data) == [state |-> "ok", data |-> data]
Absent == [state |-> "absent"]
NotJson == [state |-> "not json"]

GoodNewsItem ==
    [id |-> "", date |-> "2024-02-29", month |-> "Feb", day |-> "29", year |-> "2024",
     icon |-> "fas fa-trophy", category |-> "award", title |-> "Best paper",
     description |-> "details", visible |-> JBool(TRUE), featured |-> JBool(FALSE)]

\* A record without one of its fields.
Without(record, field) == [f \in DOMAIN record \ { field } |-> record[f]]

\* News items: a good one, dates that do not parse (not a date of the
\* calendar, another format), no date at all, a flag that is not a boolean.
NewsItemKinds ==
    { GoodNewsItem,
      [GoodNewsItem EXCEPT !.date = "2023-02-29"],
      [GoodNewsItem EXCEPT !.date = "29/02/2024"],
      Without(GoodNewsItem, "date"),
      [GoodNewsItem EXCEPT !.visible = JStr("yes")] }

GoodPub ==
    [title |-> "Traffic CNN", authors |-> "A. Li", venue |-> "KDD", year |-> JInt(2024),
     citations |-> JInt(12)]

\* Publications: a good one, years out of range on either side, a year that
\* is text, a negative citation count next to a year out of range, an empty
\* title.
PubKinds ==
    { GoodPub,
      [GoodPub EXCEPT !.year = JInt(MinYear - 1)],
      [GoodPub EXCEPT !.year = JInt(NowYear + YearsAhead + 1)],
      [GoodPub EXCEPT !.year = JStr("2024")],
      [GoodPub EXCEPT !.year = JInt(MinYear - 1), !.citations = JInt(-3)],
      [GoodPub EXCEPT !.title = "  "] }

\* News lists with ids numbered from the back; a good item in front may
\* repeat the id behind it.
RECURSIVE ValNewsLists(_)
ValNewsLists(n) ==
    IF n = 0 THEN { << >> }
    ELSE ValNewsLists(n - 1)
         \cup { Insert0(l, [item EXCEPT !.id = FormatNewsId(n)]) :
                    l \in { m \in ValNewsLists(n - 1) : Len(m) = n - 1 },
                    item \in NewsItemKinds }
         \cup { Insert0(l, [GoodNewsItem EXCEPT !.id = l[1].id]) :
                    l \in { m \in ValNewsLists(n - 1) : Len(m) = n - 1 /\ n > 1 } }

RECURSIVE ValPubLists(_)
ValPubLists(n) ==
    IF n = 0 THEN { << >> }
    ELSE ValPubLists(n - 1)
         \cup { Append(l, p) : l \in { m \in ValPubLists(n - 1) : Len(m) = n - 1 },
                               p \in PubKinds }

\* The configuration and index.html a run may find, as <<config, html>>:
\* both in order, both present with defects, or both absent.
OtherFiles ==
    { << File([author_name |-> "A. Li", affiliation |-> "THU"]),
         File(NewsStartMarker \o "\n" \o NewsEndMarker \o "\n" \o PubStartMarker \o "\n") >>,
      << File([author_name |-> "", settings |-> [delay_between_requests |-> 0]]),
         File(NewsStartMarker \o "\n") >>,
      << Absent, Absent >> }

ValidateInit ==
    /\ v_news \in { Absent, NotJson } \cup { File(l) : l \in ValNewsLists(MaxRecords) }
    /\ v_pubs \in { Absent } \cup { File(l) : l \in ValPubLists(MaxRecords) }
    /\ \E files \in OtherFiles : v_config = files[1] /\ v_html = files[2]
    /\ errors = << >>
    /\ warnings = << >>
    /\ valid = NoResult
    /\ Idle("validate")

\* DataValidator().validate_system()
validate_system ==
    /\ valid = NoResult
    /\ LET found == SystemFindings(v_news, v_pubs, v_config, v_html)
       IN  /\ errors' = found.errors
           /\ warnings' = found.warnings
           /\ valid' = Some(Len(found.errors) = 0)
    /\ UNCHANGED <<v_news, v_pubs, v_config, v_html>>
    /\ Frame("validate")

ValidateNext == validate_system

ValidateSpec == ValidateInit /\ [][ValidateNext]_vars

\* Vocabulary of the validation claim.
Validated == valid # NoResult

\* The text of every calendar date of the years the model's dates fall in,
\* written YYYY-MM-DD.
MonthLengths == << 31, 28, 31, 30, 31, 30, 31, 31, 30, 31, 30, 31 >>
CalendarDates ==
    { Decimal(y) \o "-" \o ZeroPad(Decimal(m), 2) \o "-" \o ZeroPad(Decimal(d), 2) :
        <<y, m, d>> \in { t \in (2023..2024) \X (1..12) \X (1..31) :
                            t[3] <= MonthLengths[t[2]]
                            \/ (t[2] = 2 /\ t[3] = 29 /\ t[1] % 4 = 0) } }

\* News item i carries a date that is not a calendar date written YYYY-MM-DD.
BadDate(i) == "date" \in DOMAIN v_news.data[i] /\ v_news.data[i].date \notin CalendarDates

\* Publication i carries a negative citation count, or a year out of range.
NegativeCitations(i) ==
    /\ "citations" \in DOMAIN v_pubs.data[i]
    /\ "int" \in DOMAIN v_pubs.data[i].citations
    /\ v_pubs.data[i].citations.int < 0
YearOutOfRange(i) ==
    /\ "year" \in DOMAIN v_pubs.data[i]
    /\ "int" \in DOMAIN v_pubs.data[i].year
    /\ (v_pubs.data[i].year.int < 1990 \/ v_pubs.data[i].year.int > NowYear + 2)

\* Nothing is wrong with the data except values of fields: every file is
\* there and parses, every required field is present, the news ids are
\* distinct and no title is empty.
OnlyFieldValueDefects ==
    /\ v_news.state = "ok" /\ v_pubs.state = "ok"
    /\ v_config.state = "ok" /\ v_html.state = "ok"
    /\ \A i \in 1..Len(v_news.data) :
           /\ Range(NewsRequiredFields) \subseteq DOMAIN v_news.data[i]
           /\ \A j \in 1..Len(v_news.data) : i # j => v_news.data[i].id # v_news.data[j].id
    /\ \A i \in 1..Len(v_pubs.data) :
           /\ Range(PubRequiredFields) \subseteq DOMAIN v_pubs.data[i]
           /\ v_pubs.data[i].title \notin { "", "  " }

\* C18 as stated: a malformed field value (a news date that does not parse, a
\* negative citation count, a year out of range) is recorded as a warning and
\* never as an error, and data with no other defect makes validate_system
\* return True.
C18_MalformedValuesAreWarnings ==
    (Validated /\ OnlyFieldValueDefects) =>
        /\ valid = Some(TRUE)
        /\ errors = << >>
        /\ \A i \in 1..Len(v_news.data) :
               BadDate(i) => Msg("Invalid date format", i) \in Range(warnings)

\* C18 amended: a negative citation count and a year out of range are
\* recorded as warnings, never as errors, and data whose only defects are
\* such values makes validate_system return True; a news date that does not
\* parse is recorded as an error, never as a warning, and makes
\* validate_system return False.  Neither stops the run: the publications
\* are checked whatever the news dates are.
C18_DateErrorsOtherValuesWarnings ==
    Validated =>
        /\ v_pubs.state = "ok" =>
               \A i \in 1..Len(v_pubs.data) :
                   /\ NegativeCitations(i) <=>
                          Msg("Invalid citations count", i) \in Range(warnings)
                   /\ YearOutOfRange(i) => Msg("Unusual year value", i) \in Range(warnings)
                   /\ Msg("Invalid citations count", i) \notin Range(errors)
                   /\ Msg("Unusual year value", i) \notin Range(errors)
        /\ v_news.state = "ok" =>
               \A i \in 1..Len(v_news.data) :
                   /\ BadDate(i) => Msg("Invalid date format", i) \in Range(errors)
                   /\ BadDate(i) => valid = Some(FALSE)
                   /\ Msg("Invalid date format", i) \notin Range(warnings)
        /\ (OnlyFieldValueDefects /\ \A i \in 1..Len(v_news.data) : ~BadDate(i)) =>
               /\ valid = Some(TRUE)
               /\ errors = << >>

\* A run over data whose only defects are a news date that is not a calendar
\* date and a publication with a year out of range and a negative citation
\* count: one error, validate_system returns False, the warnings are there.
C18_Witness ==
    /\ Validated /\ OnlyFieldValueDefects
    /\ Len(v_news.data) = 2 /\ BadDate(1) /\ ~BadDate(2)
    /\ Len(v_pubs.data) = 2 /\ NegativeCitations(2) /\ YearOutOfRange(2)
    /\ Len(errors) = 1
    /\ valid = Some(FALSE)

(***************************************************************************)
(* update_publications.py: the orchestrator runs the fetch and the process *)
(* script as child processes and looks at their exit status only.          *)
(***************************************************************************)
MaxRuns == 3

\* How a run of fetch_scholar_publications.py may end: the scholarly import
\* fails (exit(1)), an exception escapes, nothing is fetched (main returns),
\* the save fails (main prints and returns), or the file is saved.
FetchOutcomes == { "import failed", "exception", "nothing fetched", "save failed", "saved" }

\* How a run of auto_process_publications.py may end: an exception escapes,
\* process() returns False, or process() returns True.
ProcessOutcomes == { "exception", "process failed", "processed" }

\* The exit status of each script: main returns on every path it handles,
\* so only exit(1) and an escaped exception give a status other than 0.
FetchExitStatus(outcome) == IF outcome \in { "import failed", "exception" } THEN 1 ELSE 0
ProcessExitStatus(outcome) == IF outcome = "exception" THEN 1 ELSE 0

\* run_command: subprocess.run(..., check=True) raises CalledProcessError for
\* a status other than 0.
run_command(exit_status) == exit_status = 0

\* One run of main.  fetched and processed are how the scripts end if they
\* are started.
update_publications(option, fetched, processed) ==
    LET fetch_ok   == run_command(FetchExitStatus(fetched))
        process_ok == run_command(ProcessExitStatus(processed))
    IN  /\ runs < MaxRuns
        /\ runs' = runs + 1
        /\ choice' = option
        /\ IF option = "1"
           THEN /\ fetch_outcome' = fetched
                /\ process_outcome' = IF fetch_ok THEN processed ELSE "not run"
                /\ stamped' = (fetch_ok /\ process_ok)
                /\ success' = (fetch_ok /\ process_ok)
           ELSE IF option = "2"
           THEN /\ fetch_outcome' = "not run"
                /\ process_outcome' = processed
                /\ stamped' = FALSE
                /\ success' = process_ok
           ELSE IF option = "3"
           THEN /\ fetch_outcome' = fetched
                /\ process_outcome' = "not run"
                /\ stamped' = fetch_ok
                /\ success' = fetch_ok
           ELSE /\ fetch_outcome' = "not run"
                /\ process_outcome' = "not run"
                /\ stamped' = FALSE
                /\ success' = FALSE
        /\ config_updates' = IF stamped' THEN config_updates + 1 ELSE config_updates
        /\ Frame("orch")

OrchInit ==
    /\ runs = 0
    /\ choice = ""
    /\ fetch_outcome = "not run"
    /\ process_outcome = "not run"
    /\ success = TRUE
    /\ stamped = FALSE
    /\ config_updates = 0
    /\ Idle("orch")

OrchNext ==
    \E option \in { "1", "2", "3", "4" }, fetched \in FetchOutcomes,
       processed \in ProcessOutcomes :
        update_publications(option, fetched, processed)

OrchSpec == OrchInit /\ [][OrchNext]_vars

\* A step of the last run failed: the process script's process() returned
\* False, or the fetch script fetched or saved nothing.
StepFailed ==
    \/ process_outcome = "process failed"
    \/ fetch_outcome \in { "nothing fetched", "save failed" }

\* C19: when a pipeline step fails (auto_process_publications' process()
\* returns False, or fetch_scholar_publications fetches or saves nothing),
\* run_command returns False for it, update_publications reports failure and
\* update_config_timestamp is not called.
C19_StepFailureReported ==
    (runs > 0 /\ StepFailed) => (~success /\ ~stamped)

(***************************************************************************)
(* AutoPublicationProcessor.process (auto_process_publications.py) and     *)
(* PublicationMetricsCalculator.process_metrics_update                     *)
(* (update_publication_metrics.py), one file operation per step: load,     *)
(* backup, then the splices that write index.html.                         *)
(***************************************************************************)
\* Pages a run may find: any of the statistics, publications and impact
\* sections, in page order.
StatsSectionText == StatsStartMarker \o "\n<p>a</p>\n" \o StatsEndMarker \o "\n"
PubSectionText == PubStartMarker \o "\n        <p>a</p>\n" \o PubStatsMarker \o "\n"
ImpactSectionText ==
    ImpactStartMarker \o "\n<p>a</p>\n" \o ImpactEndMarkers[2] \o "\n"

ProcPages ==
    { (IF s THEN StatsSectionText ELSE "") \o (IF p THEN PubSectionText ELSE "")
        \o (IF i THEN ImpactSectionText ELSE "") :
        <<s, p, i>> \in BOOLEAN \X BOOLEAN \X BOOLEAN }

\* How the backup step may end: the copy is written; writing it raises and
\* the run prints a warning; os.makedirs raises, which nothing catches.
BackupOutcomes == { "written", "failed", "aborted" }

\* A backup that holds nothing of the page.
BackupCopy_Empty(content) == ""

\* dst.write(src.read())
BackupCopy(content) == content

ProcInit ==
    /\ html_file \in ProcPages
    /\ backup_files = << >>
    /\ p_kind = "none"
    /\ p_pc = "idle"
    /\ p_pre = html_file
    /\ backup_state = "not tried"
    /\ p_writes = 0
    /\ success_count = 0
    /\ p_result = NoResult
    /\ Idle("proc")

\* The run ends and returns r.
Return(r) == p_pc' = "idle" /\ p_result' = Some(r)

\* The run goes on with step s.
Goto(s) == p_pc' = s /\ UNCHANGED p_result

\* A splice result is written to index.html when the splice succeeded.
WriteIfOk(r) ==
    /\ html_file' = r.content
    /\ p_writes' = IF r.ok THEN p_writes + 1 ELSE p_writes

\* Entry of process() or process_metrics_update(): load_publications (and
\* calculate_metrics); the run returns False when nothing is loaded.
ProcStart(kind, loaded) ==
    /\ p_pc = "idle" /\ p_result = NoResult /\ p_kind = "none"
    /\ p_kind' = kind
    /\ p_pre' = html_file
    /\ IF loaded THEN Goto("backup") ELSE Return(FALSE)
    /\ UNCHANGED <<html_file, backup_files, backup_state, p_writes, success_count>>
    /\ Frame("proc")

\* create_backup() of process() and the backup block of
\* process_metrics_update(): a failure to write the copy is printed as a
\* warning and the run goes on.
ProcBackup(outcome) ==
    /\ p_pc = "backup"
    /\ backup_state' = outcome
    /\ backup_files' = IF outcome = "written"
                       THEN Append(backup_files, BackupCopy(html_file))
                       ELSE backup_files
    /\ IF outcome = "aborted"
       THEN p_pc' = "crashed" /\ UNCHANGED p_result
       ELSE Goto(IF p_kind = "process" THEN "publications" ELSE "stats")
    /\ UNCHANGED <<html_file, p_kind, p_pre, p_writes, success_count>>
    /\ Frame("proc")

\* process(): generate_publications_html and update_index_html.  Nothing is
\* generated for an empty publication list.
ProcPublications(publications_html) ==
    /\ p_pc = "publications"
    /\ IF publications_html = ""
       THEN /\ Return(FALSE)
            /\ UNCHANGED <<html_file, p_writes>>
       ELSE /\ WriteIfOk(PubSplice(html_file, publications_html))
            /\ IF PubSplice(html_file, publications_html).ok
               THEN Goto("stats")
               ELSE Return(FALSE)
    /\ UNCHANGED <<backup_files, p_kind, p_pre, backup_state, success_count>>
    /\ Frame("proc")

\* update_main_stats_section, in both entry points.
ProcStats(main_stats_html) ==
    /\ p_pc = "stats"
    /\ WriteIfOk(StatsSplice(html_file, main_stats_html))
    /\ success_count' = IF StatsSplice(html_file, main_stats_html).ok
                        THEN success_count + 1 ELSE success_count
    /\ Goto("impact")
    /\ UNCHANGED <<backup_files, p_kind, p_pre, backup_state>>
    /\ Frame("proc")

\* update_html_metrics, in both entry points, and the return: process() has
\* updated the publications by now and returns True; process_metrics_update
\* returns whether a section was updated.
ProcImpact(impact_html) ==
    /\ p_pc = "impact"
    /\ WriteIfOk(ImpactSplice(html_file, impact_html))
    /\ success_count' = IF ImpactSplice(html_file, impact_html).ok
                        THEN success_count + 1 ELSE success_count
    /\ Return(IF p_kind = "process" THEN TRUE ELSE success_count' > 0)
    /\ UNCHANGED <<backup_files, p_kind, p_pre, backup_state>>
    /\ Frame("proc")

ProcNext ==
    \/ \E kind \in { "process", "metrics" }, loaded \in BOOLEAN : ProcStart(kind, loaded)
    \/ \E outcome \in BackupOutcomes : ProcBackup(outcome)
    \/ \E publications_html \in PubFragments \cup { "" } : ProcPublications(publications_html)
    \/ \E main_stats_html \in StatsFragments : ProcStats(main_stats_html)
    \/ \E impact_html \in ImpactFragments : ProcImpact(impact_html)

ProcSpec == ProcInit /\ [][ProcNext]_vars

\* Vocabulary of the backup claim.
Written == p_writes > 0
LastBackup == backup_files[Len(backup_files)]

\* C20 as stated: in every run index.html is written only after a backup
\* holding its content from before the run has been written in the same run;
\* if the backup cannot be created, index.html is not modified.
C20_WriteOnlyAfterBackup ==
    /\ Written => (backup_state = "written" /\ Len(backup_files) > 0 /\ LastBackup = p_pre)
    /\ backup_state # "written" => html_file = p_pre

\* C20 amended: in every run index.html is written only after the backup
\* step of the same run; a backup that was written holds the content of
\* index.html from before the run and was written before index.html was;
\* a backup whose writing fails is only reported, and the run goes on to
\* write index.html without one.  index.html keeps its content when the run
\* ends before the backup step or in it.
C20_WriteOnlyAfterBackupStep ==
    /\ Written => backup_state \in { "written", "failed" }
    /\ backup_state = "written" => (Len(backup_files) = 1 /\ LastBackup = p_pre)
    /\ backup_state # "written" => backup_files = << >>
    /\ backup_state \in { "not tried", "aborted" } => html_file = p_pre
    /\ p_pc = "backup" => ~Written

\* A run whose backup failed has rewritten index.html.
C20_Witness ==
    /\ backup_state = "failed"
    /\ Written
    /\ html_file # p_pre
    /\ p_result = Some(TRUE)

(***************************************************************************)
(* ScholarFetcher.merge_publications (scripts/fetch_scholar_publications.py)*)
(***************************************************************************)
MaxFetched == 2
MaxExisting == 2

\* pub.get('title', '').lower().strip()
TitleKey(p) == Strip(Lower(Get(p, "title", "")))

\* A test that lets every fetched record in.
ShouldAdd_Always(title, existing_titles) == TRUE

\* if title and title not in existing_titles
ShouldAdd(title, existing_titles) == title # "" /\ title \notin existing_titles

\* A set of titles that does not take the new one.
AddTitle_Forgets(existing_titles, title) == existing_titles

\* existing_titles.add(title)
AddTitle(existing_titles, title) == existing_titles \cup { title }

\* The loop over the fetched records.
RECURSIVE MergeLoop(_, _, _, _)
MergeLoop(i, fetched, merged_so_far, existing_titles) ==
    IF i > Len(fetched) THEN merged_so_far
    ELSE LET title == TitleKey(fetched[i])
         IN  IF ShouldAdd(title, existing_titles)
             THEN MergeLoop(i + 1, fetched, Append(merged_so_far, fetched[i]),
                            AddTitle(existing_titles, title))
             ELSE MergeLoop(i + 1, fetched, merged_so_far, existing_titles)

merge_publications(fetched, existing) ==
    SortByYearDesc(MergeLoop(1, fetched, existing,
                             { TitleKey(existing[i]) : i \in 1..Len(existing) }))

\* Records as Scholar returns them and as the file holds them: titles that
\* differ in case and in surrounding blanks only, an empty title, no title,
\* with and without a year.
MergeRecords ==
    { [title |-> "Deep Nets", year |-> 2021],
      [title |-> " deep nets ", year |-> 2020],
      [title |-> "deep nets"],
      [title |-> "Traffic", year |-> 2021],
      [title |-> " ", year |-> 2021],
      [year |-> 2020] }

RECURSIVE MergeLists(_)
MergeLists(n) ==
    IF n = 0 THEN { << >> }
    ELSE MergeLists(n - 1)
         \cup { Append(l, p) : l \in { m \in MergeLists(n - 1) : Len(m) = n - 1 },
                               p \in MergeRecords }

MergeInit ==
    /\ new_pubs \in MergeLists(MaxFetched)
    /\ existing_pubs \in MergeLists(MaxExisting)
    /\ merged = NoResult
    /\ Idle("merge")

MergePublications ==
    /\ merged = NoResult
    /\ merged' = Some(merge_publications(new_pubs, existing_pubs))
    /\ UNCHANGED <<new_pubs, existing_pubs>>
    /\ Frame("merge")

MergeNext == MergePublications

MergeSpec == MergeInit /\ [][MergeNext]_vars

\* Vocabulary of the merge claims.
Merged == merged # NoResult

\* The natural key of a record: its title, lower-cased and trimmed.
NaturalKey(p) == IF "title" \in DOMAIN p THEN Strip(Lower(p.title)) ELSE ""

\* The positions of the fetched list whose record is to be added.
AddedPositions ==
    { i \in 1..Len(new_pubs) :
        /\ NaturalKey(new_pubs[i]) # ""
        /\ \A e \in 1..Len(existing_pubs) : NaturalKey(existing_pubs[e]) # NaturalKey(new_pubs[i])
        /\ \A j \in 1..(i - 1) : NaturalKey(new_pubs[j]) # NaturalKey(new_pubs[i]) }

\* The records of list l at the positions P, in the order of l.
RECURSIVE ItemsAt(_, _, _)
ItemsAt(l, P, i) ==
    IF i > Len(l) THEN << >>
    ELSE (IF i \in P THEN << l[i] >> ELSE << >>) \o ItemsAt(l, P, i + 1)

\* The list before it is sorted: the existing records, then the added ones.
PreSort == existing_pubs \o ItemsAt(new_pubs, AddedPositions, 1)

\* The year class of a record: its year, or none.
YearClass(p) == IF "year" \in DOMAIN p THEN << p.year >> ELSE << >>

\* Record p is not to come behind record q: p has a year and q has none or
\* an earlier one, or both are of the same class.
NotBehind(p, q) ==
    \/ YearClass(p) = YearClass(q)
    \/ YearClass(q) = << >>
    \/ (YearClass(p) # << >> /\ p.year > q.year)

\* The records of l that are of year class c, in the order of l.
OfClass(l, c) == SelectSeq(l, LAMBDA p : YearClass(p) = c)

\* C21: merge_publications keeps every existing record, adds a fetched
\* record only if its lower-cased, trimmed title is non-empty and is the key
\* of no existing record and of no fetched record added before it, and
\* returns the result by year descending, records without a year last,
\* records of the same year in the order they had before the sort.
C21_MergeKeepsAddsSorts ==
    Merged =>
        /\ Len(merged.value) = Len(PreSort)
        /\ \A k \in 1..(Len(merged.value) - 1) :
               NotBehind(merged.value[k], merged.value[k + 1])
        /\ \A p \in MergeRecords :
               OfClass(merged.value, YearClass(p)) = OfClass(PreSort, YearClass(p))

\* A merge that keeps two existing records, adds one fetched record and
\* drops a fetched record whose title differs from an existing one in case
\* and blanks only.
C21_Witness ==
    /\ Merged
    /\ Len(existing_pubs) = 2 /\ Len(new_pubs) = 2
    /\ Cardinality(AddedPositions) = 1
    /\ \E i \in 1..2, e \in 1..2 :
           /\ NaturalKey(new_pubs[i]) = NaturalKey(existing_pubs[e])
           /\ Get(new_pubs[i], "title", "") # Get(existing_pubs[e], "title", "")
    /\ \E k \in 1..3 : "year" \notin DOMAIN merged.value[k]
    /\ merged.value # PreSort

\* C29: merging the same fetched list into the result of a merge adds no
\* record: merge_publications(new, merge_publications(new, existing)) is
\* merge_publications(new, existing).
C29_MergeIdempotent ==
    Merged => merge_publications(new_pubs, merged.value) = merged.value

\* A merge that added a record, so that the second merge meets it again.
C29_Witness ==
    /\ Merged
    /\ Len(merged.value) > Len(existing_pubs)
    /\ Len(new_pubs) = 2
    /\ Cardinality(AddedPositions) = 1

(***************************************************************************)
(* generate_publication_html (process_publications_updated.py).  The       *)
(* topics of a record are a Python set of strings; the order in which a    *)
(* set of strings is iterated depends on the hash seed of the interpreter, *)
(* which is drawn anew for every run of the program.                       *)
(***************************************************************************)
MaxProgramRuns == 2
MaxFragments == 2

\* The orders in which a set may be iterated: every arrangement of its
\* elements.
Orders(S) ==
    { q \in [1..Cardinality(S) -> S] : \A i, j \in 1..Cardinality(S) : i # j => q[i] # q[j] }

\* sep.join(parts)
RECURSIVE JoinWith(_, _)
JoinWith(parts, sep) ==
    IF Len(parts) = 0 THEN ""
    ELSE IF Len(parts) = 1 THEN parts[1]
    ELSE parts[1] \o sep \o JoinWith(Tail(parts), sep)

\* format_venue
format_venue(venue, year) ==
    IF venue = "Unknown Venue" THEN Decimal(year) \o " Conference Proceedings"
    ELSE Decimal(year) \o " " \o venue

\* get_pdf_url
get_pdf_url(p) ==
    IF Get(p, "eprint_url", "") # "" THEN Get(p, "eprint_url", "") ELSE Get(p, "url", "")

\* f'data-{topic}="true"' for every topic, in the order of iteration.
TopicAttrs(order) == [k \in 1..Len(order) |-> "data-" \o order[k] \o "=\"true\""]

\* generate_publication_html on record p in a run that iterates the set of
\* its topics in the given order: all_cats of categorize_publication is
\* list(matching_topics) + [venue_category] joined by blanks.
generate_publication_html(p, order) ==
    LET venue_cat == categorize_publication(p).venue_category
        all_cats  == JoinWith(order \o << venue_cat >>, " ")
        title     == Get(p, "title", "Untitled")
        authors   == format_authors(Get(p, "authors", ""))
        venue     == format_venue(Get(p, "venue", "Unknown Venue"), Get(p, "year", 2020))
        year      == Get(p, "year", 2020)
        pdf_url   == get_pdf_url(p)
        data_attrs ==
            "data-year=\"" \o Decimal(year) \o "\" data-category=\"" \o venue_cat \o "\""
            \o (IF Len(order) > 0 THEN " " \o JoinWith(TopicAttrs(order), " ") ELSE "")
    IN  "                        <div class=\"publication-item " \o all_cats \o "\" " \o data_attrs \o ">\n"
        \o "                            <div class=\"publication-vertical-content\">\n"
        \o "                                <div class=\"publication-title\">" \o title \o "</div>\n"
        \o "                                <div class=\"publication-authors\">" \o authors \o "</div>\n"
        \o "                                <div class=\"publication-venue\">" \o venue \o "</div>\n"
        \o "                                <div class=\"publication-meta-row\">\n"
        \o "                                    <span class=\"publication-links\">"
        \o (IF pdf_url # ""
            THEN "\n                                        <a href=\"" \o pdf_url
                 \o "\" class=\"btn btn-small\" target=\"_blank\"><i class=\"fas fa-file-pdf\"></i> PDF</a>"
            ELSE "\n                                        <a href=\"#\" class=\"btn btn-small\"><i class=\"fas fa-file-pdf\"></i> PDF</a>")
        \o "\n                                        <a href=\"#\" class=\"btn btn-small btn-secondary\"><i class=\"fas fa-code\"></i> Code</a>\n"
        \o "                                    </span>\n"
        \o "                                </div>\n"
        \o "                            </div>\n"
        \o "                        </div>"

\* Records that match no topic, one, two and three topics.
RenderTitles == { "Survey", "CNN", "Traffic", "CNN Traffic" }
RenderPubs ==
    { [title |-> t, authors |-> "A. Li and B", venue |-> "KDD", year |-> 2021] :
        t \in RenderTitles }
    \cup { [title |-> t, authors |-> "A. Li", url |-> "http://x/p.pdf"] : t \in RenderTitles }
    \cup { [authors |-> "A. Li", venue |-> "Unknown Venue"] }

RenderInit ==
    /\ html_pub \in RenderPubs
    /\ run = 0
    /\ set_order = << >>
    /\ fragments = << >>
    /\ Idle("render")

\* The program is started: the interpreter draws its hash seed, which fixes
\* the order in which the set of topics of the record is iterated.
StartRun ==
    /\ run < MaxProgramRuns
    /\ run' = run + 1
    /\ set_order' \in Orders(categorize_publication(html_pub).topics)
    /\ UNCHANGED <<html_pub, fragments>>
    /\ Frame("render")

\* One evaluation of generate_publication_html(html_pub) in the current run.
GeneratePublicationHtml ==
    /\ run > 0
    /\ Len(fragments) < MaxFragments
    /\ fragments' = Append(fragments,
                           [run |-> run, html |-> generate_publication_html(html_pub, set_order)])
    /\ UNCHANGED <<html_pub, run, set_order>>
    /\ Frame("render")

RenderNext == StartRun \/ GeneratePublicationHtml

RenderSpec == RenderInit /\ [][RenderNext]_vars

\* C22: any two evaluations of generate_publication_html on the same record,
\* in the same run or in different runs of the program, give the identical
\* fragment, the order of the topic tokens in the class list and of the
\* data-<topic> attributes included.
C22_FragmentDeterministic ==
    \A i, j \in 1..Len(fragments) : fragments[i].html = fragments[j].html

(***************************************************************************)
(* PublicationMetricsCalculator.calculate_metrics                          *)
(* (scripts/update_publication_metrics.py): the metrics computed from the  *)
(* citation counts.  The venue and author counts of the same function read *)
(* other fields and are left out of the result record.                     *)
(***************************************************************************)
MaxMetricPubs == 4
HighImpactCitations == 50

\* [pub.get('citations', 0) for pub in self.publications]
CitationsOf(pubs) == [i \in 1..Len(pubs) |-> Get(pubs[i], "citations", 0)]

RECURSIVE InsertNumDesc(_, _)
InsertNumDesc(sorted, n) ==
    IF Len(sorted) = 0 THEN << n >>
    ELSE IF n > Head(sorted) THEN << n >> \o sorted
    ELSE << Head(sorted) >> \o InsertNumDesc(Tail(sorted), n)

SortedDesc_Unsorted(nums) == nums

\* sorted(nums, reverse=True)
RECURSIVE SortedDesc(_)
SortedDesc(nums) ==
    IF Len(nums) = 0 THEN << >>
    ELSE InsertNumDesc(SortedDesc(Tail(nums)), Head(nums))

\* The loop over enumerate(citations_sorted, 1): h_index follows i while
\* citations >= i and the loop breaks at the first position where it is not.
RECURSIVE HIndexLoop(_, _, _)
HIndexLoop(i, citations_sorted, h_index) ==
    IF i > Len(citations_sorted) THEN h_index
    ELSE IF citations_sorted[i] >= i THEN HIndexLoop(i + 1, citations_sorted, i)
    ELSE h_index

RECURSIVE SumSeq(_)
SumSeq(nums) == IF Len(nums) = 0 THEN 0 ELSE Head(nums) + SumSeq(Tail(nums))

\* calculate_metrics: {} without publications.
calculate_metrics(pubs) ==
    IF Len(pubs) = 0 THEN NoResult
    ELSE Some([total_publications |-> Len(pubs),
               total_citations |-> SumSeq(CitationsOf(pubs)),
               high_impact_publications |->
                   Cardinality({ i \in 1..Len(pubs) :
                                   Get(pubs[i], "citations", 0) >= HighImpactCitations }),
               h_index |-> HIndexLoop(1, SortedDesc(CitationsOf(pubs)), 0)])

\* Publications with a citation count, and one without the field.
MetricPubKinds ==
    { [title |-> "P", citations |-> c] : c \in { 0, 1, 2, 3, 50 } } \cup { [title |-> "P"] }

RECURSIVE MetricLists(_)
MetricLists(n) ==
    IF n = 0 THEN { << >> }
    ELSE MetricLists(n - 1)
         \cup { Append(l, p) : l \in { x \in MetricLists(n - 1) : Len(x) = n - 1 },
                               p \in MetricPubKinds }

MetricsInit ==
    /\ m_publications \in MetricLists(MaxMetricPubs)
    /\ metrics = NoResult
    /\ Idle("metrics")

CalculateMetrics ==
    /\ metrics = NoResult
    /\ m_publications # << >>
    /\ metrics' = calculate_metrics(m_publications)
    /\ UNCHANGED m_publications
    /\ Frame("metrics")

MetricsNext == CalculateMetrics

MetricsSpec == MetricsInit /\ [][MetricsNext]_vars

\* The citation count of the publication at position i, 0 when it has none.
Cited(pubs, i) == IF "citations" \in DOMAIN pubs[i] THEN pubs[i].citations ELSE 0

\* At least h publications have h citations or more.
HasH(pubs, h) == Cardinality({ i \in 1..Len(pubs) : Cited(pubs, i) >= h }) >= h

\* C24: the h_index of calculate_metrics is the largest h such that at least
\* h publications have h citations or more, 0 when no publication is cited,
\* for every non-empty list of publications with non-negative counts.
C24_HIndex ==
    metrics # NoResult =>
        /\ HasH(m_publications, metrics.value.h_index)
        /\ \A h \in 0..Len(m_publications) :
               HasH(m_publications, h) => h <= metrics.value.h_index
        /\ (\A i \in 1..Len(m_publications) : Cited(m_publications, i) = 0)
               => metrics.value.h_index = 0

\* An unsorted list, one publication without a count, with h-index 2.
C24_Witness ==
    /\ metrics # NoResult
    /\ Len(m_publications) = 4
    /\ Cited(m_publications, 1) = 1
    /\ "citations" \notin DOMAIN m_publications[2]
    /\ Cited(m_publications, 3) = 50
    /\ Cited(m_publications, 4) = 3
    /\ metrics.value.h_index = 2

(***************************************************************************)
(* A session of update runs on one index.html: the four splice operations  *)
(* called one after the other, each call logged with the document it left. *)
(* The documents are made of whole blocks of the site template.            *)
(***************************************************************************)
MaxBlocks == 3
MaxSessionCalls == 2

\* The blocks of the template: the news section up to the marker that ends
\* it, the Statistics section, the publication list up to the Publication
\* Impact comment, and the Publication Impact block with the closing tags
\* of its container and section.
SessionBlocks ==
    { NewsStartMarker \o "\n<p>old news</p>\n" \o NewsEndMarker \o "\n",
      StatsStartMarker \o "\n<h3>7</h3>\n" \o StatsEndMarker \o "\n",
      PubStartMarker \o "\n<p>old list</p>\n" \o PubImpactMarker \o "\n",
      ImpactStartMarker \o "\n<h2>old</h2>\n                </div>\n\n            </div>\n        </section>\n" }

SessionDocuments ==
    { Join(q) : q \in UNION { [1..n -> SessionBlocks] : n \in 0..MaxBlocks } }

SessionInit ==
    /\ session_first \in SessionDocuments
    /\ session_html = session_first
    /\ session_log = << >>
    /\ Idle("session")

\* One call: index.html becomes what the splice writes (or stays, when the
\* call fails) and the call is logged.
SessionCall(name, fragment, backup, r) ==
    /\ Len(session_log) < MaxSessionCalls
    /\ session_html' = r.content
    /\ session_log' = Append(session_log,
                             [op |-> name, arg |-> fragment, backup |-> backup,
                              ok |-> r.ok, html |-> r.content])
    /\ UNCHANGED session_first
    /\ Frame("session")

SessionNewsUpdate ==
    \E news_html \in NewsFragments, backup \in BOOLEAN :
        SessionCall("update_index_html_with_news", news_html, backup,
                    NewsSplice(session_html, news_html))

SessionPublicationsUpdate ==
    \E publications_html \in PubFragments :
        SessionCall("update_index_html", publications_html, FALSE,
                    PubSplice(session_html, publications_html))

SessionStatsUpdate ==
    \E stats_html \in StatsFragments :
        SessionCall("update_main_stats_section", stats_html, FALSE,
                    StatsSplice(session_html, stats_html))

SessionImpactUpdate ==
    \E impact_html \in ImpactFragments :
        SessionCall("update_html_metrics", impact_html, FALSE,
                    ImpactSplice(session_html, impact_html))

SessionNext ==
    \/ SessionNewsUpdate
    \/ SessionPublicationsUpdate
    \/ SessionStatsUpdate
    \/ SessionImpactUpdate

SessionSpec == SessionInit /\ [][SessionNext]_vars

\* index.html before the i-th call of the session.
HtmlBefore(i) == IF i = 1 THEN session_first ELSE session_log[i - 1].html

\* Calls i and i + 1 are the same operation with the same fragment.
Repeated(name, i) ==
    /\ i + 1 <= Len(session_log)
    /\ session_log[i].op = name
    /\ session_log[i + 1].op = name
    /\ session_log[i + 1].arg = session_log[i].arg

\* The document holds the news start marker and, at or after its first
\* occurrence, the marker that ends the news region.
HasNewsMarkers(doc) ==
    \E s \in 0..Len(doc) :
        /\ OccursAt(doc, NewsStartMarker, s)
        /\ \A t \in 0..(s - 1) : ~OccursAt(doc, NewsStartMarker, t)
        /\ OccursFrom(doc, NewsEndMarker, s)

C26_ImpactSpliceIdempotent ==
    \A i \in 1..Len(session_log) :
        (Repeated(ImpactOp, i) /\ session_log[i].ok)
            => session_log[i + 1].html = session_log[i].html

\* The Statistics section comes before the Publication Impact block: the
\* first Statistics marker lies before the first opening line of the block.
StatsPrecedesImpact(doc) ==
    /\ OccursFrom(doc, StatsStartMarker, 0)
    /\ OccursFrom(doc, ImpactStartMarker, 0)
    /\ FirstAt(doc, StatsStartMarker, 0) < FirstAt(doc, ImpactStartMarker, 0)

\* C27: update_main_stats_section(stats_html) and then
\* update_html_metrics(impact_html), on a document whose Statistics section
\* comes before the Publication Impact block, leave the Statistics section
\* equal to stats_html: it stands where the first call wrote it.
C27_StatsSectionKept ==
    ( /\ Len(session_log) = 2
      /\ session_log[1].op = StatsOp
      /\ session_log[1].ok
      /\ session_log[2].op = ImpactOp
      /\ session_log[2].ok
      /\ StatsPrecedesImpact(session_first) )
        => OccursAt(session_html, session_log[1].arg,
                    FirstAt(session_first, StatsStartMarker, 0))

\* Each marker of the two splices occurs once (the two comments that may end
\* the publication list at most once), and the news region lies before the
\* publication list.
NewsBeforePublications(doc) ==
    /\ Occurrences(doc, NewsStartMarker) = 1
    /\ Occurrences(doc, NewsEndMarker) = 1
    /\ Occurrences(doc, PubStartMarker) = 1
    /\ Occurrences(doc, PubStatsMarker) <= 1
    /\ Occurrences(doc, PubImpactMarker) <= 1
    /\ FirstAt(doc, NewsStartMarker, 0) < FirstAt(doc, NewsEndMarker, 0)
    /\ FirstAt(doc, NewsEndMarker, 0) < FirstAt(doc, PubStartMarker, 0)

\* The session was the news splice and the publications splice, one call of
\* each, in either order.
BothSplices ==
    /\ Len(session_log) = 2
    /\ { session_log[1].op, session_log[2].op } = { NewsOp, PubOp }

\* The call of the session that was operation name.
CallOf(name) == IF session_log[1].op = name THEN session_log[1] ELSE session_log[2]

\* The same two calls made in the opposite order on the first document.
OppositeFirst ==
    IF session_log[1].op = NewsOp
    THEN PubSplice(session_first, CallOf(PubOp).arg)
    ELSE NewsSplice(session_first, CallOf(NewsOp).arg)
OppositeSecond ==
    IF session_log[1].op = NewsOp
    THEN NewsSplice(OppositeFirst.content, CallOf(NewsOp).arg)
    ELSE PubSplice(OppositeFirst.content, CallOf(PubOp).arg)

\* C28: on a document in which the news region comes before the publication
\* list and each marker occurs once (the start marker of the publication
\* list also after each call), update_index_html_with_news and
\* update_index_html give the same index.html and the same return values in
\* either order, and each leaves the other region as it was: the news
\* splice changes nothing from the start of the publication list on, the
\* publications splice nothing before it.
C28_NewsAndPublicationsCommute ==
    ( /\ BothSplices
      /\ NewsBeforePublications(session_first)
      /\ \A i \in 1..2 : Occurrences(session_log[i].html, PubStartMarker) <= 1 )
        => /\ OppositeSecond.content = session_html
           /\ OppositeSecond.ok = session_log[1].ok
           /\ OppositeFirst.ok = session_log[2].ok
           /\ LET p == FirstAt(session_first, PubStartMarker, 0)
                  first == session_log[1]
              IN  IF first.op = NewsOp
                  THEN From(first.html, Len(first.html) - (Len(session_first) - p))
                           = From(session_first, p)
                  ELSE Before(first.html, p) = Before(session_first, p)

\* Publications first, then news, both written, on a document with the news
\* region, the publication list and the impact block.
C28_Witness ==
    /\ BothSplices
    /\ NewsBeforePublications(session_first)
    /\ session_log[1].op = PubOp
    /\ session_log[1].ok
    /\ session_log[1].html # session_first
    /\ session_log[2].ok
    /\ session_html # session_log[1].html
    /\ OccursFrom(session_first, ImpactStartMarker, 0)

====
